---- MODULE Spec2Model ----
(***************************************************************************)
(* State machine of the home-automation hub core of aditya2618/server:     *)
(* MQTT ingestion (core/mqtt), the device/entity registry (core/models),   *)
(* the liveness sweep (device_health_check), the two automation drivers    *)
(* (core/automation_executor, core/tasks_scheduler) and the websocket      *)
(* fan-out (core/ws/consumers).                                            *)
(*                                                                         *)
(* Representation choices:                                                 *)
(*  - an MQTT topic is the sequence of its "/"-separated segments, i.e.    *)
(*    the value of topic.split("/");                                       *)
(*  - a JSON scalar is a record [t, v] of a type tag and its str() text;   *)
(*  - a JSON object (python dict) is a function from keys to scalars;      *)
(*  - database tables are sequences, the primary key being the index;      *)
(*  - the clock `now` counts seconds.                                      *)
(***************************************************************************)
EXTENDS Integers, Sequences, FiniteSets, TLC

(***************************************************************************)
(* Bounds of the model                                                     *)
(***************************************************************************)
MaxMsgs == 3
MaxRuleMsgs == 2
MaxTime == 90
MaxToggles == 1
MaxTicks == 2
MaxStormMsgs == 21
MaxRequests == 2
MaxControlMsgs == 2
MaxCommands == 2

(***************************************************************************)
(* Values                                                                  *)
(***************************************************************************)
NoTime == -1
None == 0

Scalar(t, v) == [t |-> t, v |-> v]
Str(s) == Scalar("str", s)
Num(s) == Scalar("num", s)
Bool(s) == Scalar("bool", s)
NullScalar == Scalar("null", "None")

EmptyDict == [k \in {} |-> NullScalar]

\* a python value that is either a dict or a scalar
DictValue(d) == [isdict |-> TRUE, d |-> d, s |-> NullScalar]
ScalarValue(s) == [isdict |-> FALSE, d |-> EmptyDict, s |-> s]

\* iteration order of the keys of the dicts used as payloads and commands
KeyOrder == <<"brightness", "r", "g", "b", "speed", "power", "value", "state">>

Items(d) == SelectSeq(KeyOrder, LAMBDA k : k \in DOMAIN d)

(***************************************************************************)
(* Raw MQTT payloads (msg.payload.decode()) and json.loads on them         *)
(***************************************************************************)
RawPayloads == {"ON", "25", "{\"brightness\": 10}", "online"}

\* json.loads(payload): ok = FALSE stands for the JSONDecodeError
json_loads(payload) ==
    CASE payload = "25" -> [ok |-> TRUE, value |-> ScalarValue(Num("25"))]
      [] payload = "{\"brightness\": 10}" ->
            [ok |-> TRUE, value |-> DictValue("brightness" :> Num("10"))]
      [] payload = "{\"r\": 1, \"g\": 2, \"b\": 3}" ->
            [ok |-> TRUE, value |-> DictValue(("r" :> Num("1")) @@ ("g" :> Num("2"))
                                              @@ ("b" :> Num("3")))]
      [] payload = "{\"speed\": 3}" ->
            [ok |-> TRUE, value |-> DictValue("speed" :> Num("3"))]
      [] OTHER -> [ok |-> FALSE, value |-> ScalarValue(NullScalar)]

\* handlers.py 47-51: the payload itself when it is not JSON
parse_payload(payload) ==
    IF json_loads(payload).ok THEN json_loads(payload).value
    ELSE ScalarValue(Str(payload))

\* handlers.py 85: value if isinstance(value, dict) else {"value": value}
wrap_state(value) ==
    IF value.isdict THEN value.d ELSE ("value" :> value.s)

\* dict.update in place of the assignment: the old keys survive
entity_state_merge(old_state, value) == wrap_state(value) @@ old_state

\* handlers.py 85-86: the state that replaces the stored one
entity_state_update(old_state, value) == wrap_state(value)

(***************************************************************************)
(* Topics                                                                  *)
(***************************************************************************)
EntityTypes == {"sensor", "switch", "relay", "light", "fan", "valve", "climate", "lock"}

\* state topics: the provisioned lamp and sensor, a topic naming the lamp with
\* another entity kind, an unknown device, a topic with an empty home level
LampTopic == <<"home", "h1", "n1", "switch", "lamp", "state">>
TempTopic == <<"home", "h1", "n1", "sensor", "room_temp", "state">>
LampAsLightTopic == <<"home", "h1", "n1", "light", "lamp", "state">>
StripTopic == <<"home", "h2", "n2", "light", "strip", "state">>
NoHomeTopic == <<"home", "", "n3", "light", "strip", "state">>

StateTopics == {LampTopic, TempTopic, LampAsLightTopic, StripTopic, NoHomeTopic}

StatusTopics ==
    { <<"home", "h1", "n1", "status">>,
      <<"home", "h9", "n9", "status">> }

\* topics of any other shape
OtherTopics ==
    { <<"home", "h2", "n2", "light", "strip", "command">>,
      <<"home", "h2", "n2", "light", "status">>,
      <<"home", "h2", "n2", "state">> }

Topics == StateTopics \cup StatusTopics \cup OtherTopics

\* the messages the broker delivers: <<topic, payload>>
IngestMessages ==
    { <<LampTopic, "ON">>,
      <<LampAsLightTopic, "25">>,
      <<StripTopic, "{\"brightness\": 10}">>,
      <<StripTopic, "ON">>,
      <<NoHomeTopic, "25">>,
      <<(<<"home", "h1", "n1", "status">>), "online">>,
      <<(<<"home", "h1", "n1", "status">>), "ON">>,
      <<(<<"home", "h9", "n9", "status">>), "online">>,
      <<(<<"home", "h2", "n2", "light", "strip", "command">>), "ON">>,
      <<(<<"home", "h2", "n2", "light", "status">>), "online">>,
      <<(<<"home", "h2", "n2", "state">>), "ON">> }

RuleMessages ==
    { <<LampTopic, "ON">>,
      <<LampTopic, "25">>,
      <<TempTopic, "25">>,
      <<TempTopic, "{\"brightness\": 10}">>,
      <<(<<"home", "h1", "n1", "status">>), "online">> }

\* the two shapes of section 6
IsStateShape(topic) ==
    /\ Len(topic) = 6
    /\ topic[1] = "home"
    /\ topic[6] = "state"

IsStatusShape(topic) ==
    /\ Len(topic) = 4
    /\ topic[1] = "home"
    /\ topic[4] = "status"

\* the indices of the parts shifted by one
parse_topic_shifted(topic) ==
    IF Len(topic) # 6
    THEN [ok |-> FALSE, home_id |-> "", node_name |-> "",
          entity_type |-> "", entity_name |-> ""]
    ELSE [ok |-> TRUE, home_id |-> topic[1], node_name |-> topic[2],
          entity_type |-> topic[3], entity_name |-> topic[4]]

\* parser.py: None is modelled by ok = FALSE
parse_topic(topic) ==
    IF Len(topic) # 6
    THEN [ok |-> FALSE, home_id |-> "", node_name |-> "",
          entity_type |-> "", entity_name |-> ""]
    ELSE [ok |-> TRUE, home_id |-> topic[2], node_name |-> topic[3],
          entity_type |-> topic[4], entity_name |-> topic[5]]

\* topic.endswith("/status") on the split topic
endswith_status(topic) ==
    /\ Len(topic) >= 2
    /\ topic[Len(topic)] = "status"

(***************************************************************************)
(* Administrative data: entity ids 1..3 live on the provisioned device 1   *)
(* of Home 1; the rules and the scene refer to them.                       *)
(***************************************************************************)
MAX_EXECUTIONS_PER_MINUTE == 10
DEFAULT_COOLDOWN_SECONDS == 60
RATE_KEY_TIMEOUT == 60
HEARTBEAT_TIMEOUT == 60

StateTrigger(e, attr, op, val) ==
    [trigger_type |-> "state", entity |-> e, attribute |-> attr, operator |-> op,
     value |-> val, time_of_day |-> NoTime, days_of_week |-> {},
     sun_event |-> "", sun_offset |-> 0]

\* time_of_day is the minute of the day
TimeTrigger(minute, days) ==
    [trigger_type |-> "time", entity |-> None, attribute |-> "", operator |-> "",
     value |-> NullScalar, time_of_day |-> minute, days_of_week |-> days,
     sun_event |-> "", sun_offset |-> 0]

\* sun_offset is in minutes
SunTrigger(event, offset) ==
    [trigger_type |-> "sun", entity |-> None, attribute |-> "", operator |-> "",
     value |-> NullScalar, time_of_day |-> NoTime, days_of_week |-> {},
     sun_event |-> event, sun_offset |-> offset]

EntityAction(e, cmd) ==
    [entity |-> e, scene |-> None, has_command |-> TRUE, command |-> cmd,
     delay_seconds |-> 0]

RunSceneAction(sc) ==
    [entity |-> None, scene |-> sc, has_command |-> FALSE, command |-> EmptyDict,
     delay_seconds |-> 0]

\* models.py Automation / AutomationTrigger / AutomationAction rows
Automations ==
    << [home |-> 1, trigger_logic |-> "AND", cooldown_seconds |-> 60,
        triggers |-> << StateTrigger(1, "state", "==", Str("ON")) >>,
        actions |-> << EntityAction(3, "power" :> Bool("True")) >>],
       [home |-> 1, trigger_logic |-> "AND", cooldown_seconds |-> 60,
        triggers |-> << StateTrigger(1, "state", "==", Str("ON")),
                        StateTrigger(2, "temp", ">", Num("20")) >>,
        actions |-> << EntityAction(3, "speed" :> Num("2")) >>],
       [home |-> 1, trigger_logic |-> "AND", cooldown_seconds |-> 60,
        triggers |-> << TimeTrigger(1, {}) >>,
        actions |-> << RunSceneAction(1), EntityAction(3, "power" :> Bool("False")) >>],
       [home |-> 1, trigger_logic |-> "AND", cooldown_seconds |-> 90,
        triggers |-> << StateTrigger(1, "state", "==", Str("ON")) >>,
        actions |-> << EntityAction(3, "speed" :> Num("10")) >>],
       [home |-> 1, trigger_logic |-> "OR", cooldown_seconds |-> 60,
        triggers |-> << StateTrigger(1, "state", "==", Str("ON")),
                        StateTrigger(1, "state", "==", Str("25")) >>,
        actions |-> << EntityAction(3, "speed" :> Num("20")) >>],
       [home |-> 1, trigger_logic |-> "AND", cooldown_seconds |-> 60,
        triggers |-> << StateTrigger(1, "value", "==", Str("ON")) >>,
        actions |-> << EntityAction(3, "power" :> Bool("True")) >>],
       [home |-> 1, trigger_logic |-> "AND", cooldown_seconds |-> 60,
        triggers |-> << TimeTrigger(1, {}), StateTrigger(1, "state", "==", Str("ON")) >>,
        actions |-> << EntityAction(3, "speed" :> Num("30")) >>],
       [home |-> 1, trigger_logic |-> "OR", cooldown_seconds |-> 60,
        triggers |-> << StateTrigger(1, "state", "==", Str("ON")), TimeTrigger(1, {}) >>,
        actions |-> << EntityAction(3, "speed" :> Num("40")) >>],
       [home |-> 1, trigger_logic |-> "AND", cooldown_seconds |-> 60,
        triggers |-> << SunTrigger("sunrise", 0) >>,
        actions |-> << EntityAction(3, "speed" :> Num("50")) >>] >>

RuleIds == DOMAIN Automations

\* models.py Scene / SceneAction rows, in "order" order
Scenes ==
    << [home |-> 1,
        actions |-> << [entity |-> 3, value |-> ("power" :> Bool("True"))],
                       [entity |-> 2, value |-> ("value" :> Num("25"))],
                       [entity |-> 3, value |-> ("speed" :> Num("2"))] >>] >>

\* models.py Home rows: the timezone is its offset from UTC in minutes
Homes == << [timezone |-> 1] >>

\* SunCalculator.get_sun_times(home)['sunrise'] for home 1 on the day of the
\* run, in seconds
SunriseInstant == 45

(***************************************************************************)
(* State                                                                   *)
(***************************************************************************)
VARIABLES
    devices,        \* Device table
    entities,       \* Entity table
    history,        \* EntityStateHistory table
    attributes,     \* EntityAttribute table
    enabled,        \* Automation.enabled per rule
    executions,     \* AutomationExecution table
    cacheCount,     \* cache key automation_executions_<id>: value and expiry
    cacheCooldown,  \* cache key automation_cooldown_<id>: expiry
    published,      \* commands handed to client.publish
    matchLog,       \* per rule, the times of the log line "All triggers match!"
    celery,         \* tasks queued with .delay
    wsQueue,        \* messages group_send put on the channel layer
    wsSent,         \* messages the consumers sent to their websocket clients
    now,            \* the clock, in seconds
    last,           \* the operation that ran last and what it returned
    nmsgs,          \* number of MQTT messages received
    ntoggles,       \* number of toggle requests served
    nticks,         \* number of periodic runs
    bridge,         \* the CloudBridgeClient object and its tasks
    cloud,          \* the CloudClient object and its tasks
    gateway,        \* the connect_to_cloud script: its loop and what it sent
    nreqs,          \* number of requests the cloud has sent
    evaluations     \* the evaluations of a rule in progress, one per worker

\* the threads or processes that run check_automations_for_entity
Workers == {1, 2}

\* count is the local variable of check_execution_limit
IdleEvaluation == [pc |-> "idle", rule |-> 0, count |-> 0]

vars == <<devices, entities, history, attributes, enabled, executions, cacheCount,
          cacheCooldown, published, matchLog, celery, wsQueue, wsSent, now, last,
          nmsgs, ntoggles, nticks, bridge, cloud, gateway, nreqs, evaluations>>

\* the hub of the first part of this module, and the clients of the cloud
hubVars == <<devices, entities, history, attributes, enabled, executions, cacheCount,
             cacheCooldown, published, matchLog, celery, wsQueue, wsSent, now, last,
             nmsgs, ntoggles, nticks, evaluations>>

bridgeVars == <<bridge, cloud, gateway, nreqs>>

\* CloudBridgeClient.__init__: reconnect_delay, max_reconnect_delay
BRIDGE_RECONNECT_DELAY == 5
BRIDGE_MAX_RECONNECT_DELAY == 60

\* CloudClient.__init__: reconnect_delay, max_reconnect_delay
CLOUD_RECONNECT_DELAY == 1
CLOUD_MAX_RECONNECT_DELAY == 60

NoOp == [op |-> "none", topic |-> <<>>, payload |-> "", ok |-> FALSE,
         device |-> None, entity |-> None, device_created |-> FALSE,
         entity_created |-> FALSE, count |-> 0, threshold |-> NoTime,
         repeat |-> FALSE, prev_count |-> 0, evaluated |-> {}, scene |-> None,
         attempted |-> 0, raised |-> FALSE, command |-> ScalarValue(NullScalar)]

Init ==
    /\ devices = << [home |-> 1, home_identifier |-> "h1", node_name |-> "n1",
                     name |-> "n1", is_online |-> FALSE, last_seen |-> NoTime] >>
    /\ entities =
         << [device |-> 1, name |-> "lamp", entity_type |-> "switch",
             state |-> EmptyDict, capabilities |-> {}, is_controllable |-> TRUE],
            [device |-> 1, name |-> "room_temp", entity_type |-> "sensor",
             state |-> EmptyDict, capabilities |-> {"read_only"},
             is_controllable |-> FALSE],
            [device |-> 1, name |-> "ceiling", entity_type |-> "fan",
             state |-> EmptyDict, capabilities |-> {}, is_controllable |-> TRUE] >>
    /\ history = <<>>
    /\ attributes = {}
    /\ enabled = [r \in RuleIds |-> TRUE]
    /\ executions = <<>>
    /\ cacheCount = [r \in RuleIds |-> [count |-> 0, expires |-> NoTime,
                                        since |-> NoTime]]
    /\ cacheCooldown = [r \in RuleIds |-> NoTime]
    /\ published = <<>>
    /\ matchLog = [r \in RuleIds |-> <<>>]
    /\ celery = <<>>
    /\ wsQueue = <<>>
    /\ wsSent = <<>>
    /\ now = 0
    /\ last = NoOp
    /\ nmsgs = 0
    /\ ntoggles = 0
    /\ nticks = 0
    /\ evaluations = [p \in Workers |-> IdleEvaluation]
    /\ bridge = [running |-> FALSE, websocket |-> "None", sock |-> "none",
                 reconnect_delay |-> BRIDGE_RECONNECT_DELAY, pc |-> "init",
                 receive |-> "off", ping |-> "off", slept |-> 0, prev_slept |-> 0,
                 stopped |-> FALSE]
    /\ cloud = [running |-> FALSE, connected |-> FALSE, ws |-> "None", sock |-> "none",
                reconnect_delay |-> CLOUD_RECONNECT_DELAY, pc |-> "init",
                heartbeat |-> "off", slept |-> 0, prev_slept |-> 0,
                stopped |-> FALSE, out |-> <<>>, inbox |-> <<>>]
    /\ gateway = [pc |-> "connect", out |-> <<>>, inbox |-> <<>>]
    /\ nreqs = 0

(***************************************************************************)
(* models.py helpers                                                       *)
(***************************************************************************)
\* Entity.state_topic() / Entity.command_topic(): the f-string, split on "/"
state_topic(e, devs) ==
    <<"home", devs[e.device].home_identifier, devs[e.device].node_name,
      e.entity_type, e.name, "state">>

command_topic(e, devs) ==
    <<"home", devs[e.device].home_identifier, devs[e.device].node_name,
      e.entity_type, e.name, "command">>

\* str(device.home.id)
str_id(i) == CASE i = 1 -> "1" [] i = 2 -> "2" [] OTHER -> "3"

(***************************************************************************)
(* core/mqtt/client.py publish_command                                     *)
(***************************************************************************)
\* what client.publish is given: a scalar as it is, or the text json.dumps(d)
WireScalar(s) == [json |-> FALSE, d |-> EmptyDict, s |-> s]
WireJson(d) == [json |-> TRUE, d |-> d, s |-> NullScalar]

flatten_payload(payload) ==
    IF payload.isdict
    THEN IF "value" \in DOMAIN payload.d /\ Cardinality(DOMAIN payload.d) = 1
         THEN WireScalar(payload.d["value"])
         ELSE IF "power" \in DOMAIN payload.d /\ Cardinality(DOMAIN payload.d) = 1
         THEN WireScalar(payload.d["power"])
         ELSE IF "state" \in DOMAIN payload.d /\ Cardinality(DOMAIN payload.d) = 1
         THEN WireScalar(payload.d["state"])
         ELSE WireJson(payload.d)
    ELSE WireScalar(payload.s)

\* `by` records the rule on whose behalf the command is published (0: none)
publish_command(pub, topic, payload, by) ==
    Append(pub, [topic |-> topic, payload |-> flatten_payload(payload), by |-> by])

(***************************************************************************)
(* core/automation_executor.py                                             *)
(***************************************************************************)
\* float(x): ok = FALSE stands for ValueError / TypeError
to_float(x) ==
    IF x.t = "null" THEN [ok |-> FALSE, n |-> 0]
    ELSE IF x.t = "bool" THEN [ok |-> TRUE, n |-> IF x.v = "True" THEN 1 ELSE 0]
    ELSE CASE x.v = "2" -> [ok |-> TRUE, n |-> 2]
           [] x.v = "10" -> [ok |-> TRUE, n |-> 10]
           [] x.v = "20" -> [ok |-> TRUE, n |-> 20]
           [] x.v = "25" -> [ok |-> TRUE, n |-> 25]
           [] OTHER -> [ok |-> FALSE, n |-> 0]

evaluate_trigger(trigger, value) ==
    IF trigger.operator = ">"
    THEN /\ to_float(value).ok
         /\ to_float(trigger.value).ok
         /\ to_float(value).n > to_float(trigger.value).n
    ELSE IF trigger.operator = "<"
    THEN /\ to_float(value).ok
         /\ to_float(trigger.value).ok
         /\ to_float(value).n < to_float(trigger.value).n
    ELSE IF trigger.operator = "=="
    THEN value.v = trigger.value.v
    ELSE FALSE

\* cache.get(key, 0): an expired key is absent
cache_get_count(cc, r, t) ==
    IF t < cc[r].expires THEN cc[r].count ELSE 0

check_execution_limit_ok(cc, r, t) ==
    cache_get_count(cc, r, t) < MAX_EXECUTIONS_PER_MINUTE

\* the cache.set of check_execution_limit without a new timeout
check_execution_limit_set_keep_expiry(cc, r, t) ==
    IF check_execution_limit_ok(cc, r, t)
    THEN [cc EXCEPT ![r] = [count |-> cache_get_count(cc, r, t) + 1,
                            expires |-> IF t < cc[r].expires THEN cc[r].expires
                                        ELSE t + RATE_KEY_TIMEOUT,
                            since |-> IF t < cc[r].expires THEN cc[r].since ELSE t]]
    ELSE cc

\* since is a ghost: the time of the first cache.set since the key was absent
check_execution_limit_set(cc, r, t) ==
    IF check_execution_limit_ok(cc, r, t)
    THEN [cc EXCEPT ![r] = [count |-> cache_get_count(cc, r, t) + 1,
                            expires |-> t + RATE_KEY_TIMEOUT,
                            since |-> IF t < cc[r].expires THEN cc[r].since ELSE t]]
    ELSE cc

should_execute_automation_ok(cd, r, t) ==
    ~ (t < cd[r])

should_execute_automation_set(cd, r, t, cooldown_seconds) ==
    IF should_execute_automation_ok(cd, r, t)
    THEN [cd EXCEPT ![r] = t + cooldown_seconds]
    ELSE cd

\* the loop of execute_automation over the actions from the i-th on: acc holds
\* the commands published, the success flag and, for every action attempted so
\* far, its index and whether it succeeded
RECURSIVE execute_actions(_, _, _, _, _)
execute_actions(actions, i, acc, ents, devs_by) ==
    IF i > Len(actions) THEN acc
    ELSE LET action == actions[i]
             failed == [acc EXCEPT !.all_success = FALSE,
                                   !.attempts = Append(@, [index |-> i, ok |-> FALSE])]
         IN IF action.entity # None
            THEN IF ~ action.has_command
                 \* _get_action_description: None.get raises, caught per action
                 THEN execute_actions(actions, i + 1, failed, ents, devs_by)
                 \* execute_device_action
                 ELSE execute_actions(actions, i + 1,
                        [acc EXCEPT
                           !.published =
                              publish_command(@,
                                  command_topic(ents[action.entity], devs_by.devices),
                                  DictValue(action.command), devs_by.by),
                           !.attempts = Append(@, [index |-> i, ok |-> TRUE])],
                        ents, devs_by)
            \* execute_scene_action: core.api.scenes has no execute_scene_logic,
            \* the ImportError is caught and the action reported as failed
            ELSE execute_actions(actions, i + 1, failed, ents, devs_by)

\* str(trigger_value)
str_value(value) == value.v

execute_automation(w, r, trigger_entity_id, trigger_value, ents, devs, t) ==
    LET res == execute_actions(Automations[r].actions, 1,
                               [published |-> w.published, all_success |-> TRUE,
                                attempts |-> <<>>],
                               ents, [devices |-> devs, by |-> r])
    \* `attempts` is not a column: it keeps what the run of the actions did
    IN [w EXCEPT
          !.published = res.published,
          !.executions = Append(@, [automation |-> r, executed_at |-> t,
                                    success |-> res.all_success,
                                    error_message |-> "",
                                    trigger_entity |-> trigger_entity_id,
                                    trigger_value |-> str_value(trigger_value),
                                    attempts |-> res.attempts])]

\* "True", "False" or "raise" (an exception other than Entity.DoesNotExist)
RECURSIVE check_triggers_from(_, _, _, _, _, _)
check_triggers_from(triggers, i, entity_id, attribute, new_value, ents) ==
    IF i > Len(triggers) THEN "True"
    ELSE LET trigger == triggers[i]
         IN IF trigger.entity = entity_id /\ trigger.attribute = attribute
            THEN IF ~ evaluate_trigger(trigger, new_value) THEN "False"
                 ELSE check_triggers_from(triggers, i + 1, entity_id, attribute,
                                          new_value, ents)
            ELSE IF trigger.entity \in DOMAIN ents
                 \* Entity has no attribute current_state: AttributeError
                 THEN "raise"
                 \* Entity.DoesNotExist
                 ELSE "False"

\* the check over the State triggers only, the others taken as true
_check_all_triggers_state_only(r, entity_id, attribute, new_value, ents) ==
    check_triggers_from(SelectSeq(Automations[r].triggers,
                                  LAMBDA tr : tr.trigger_type = "state"),
                        1, entity_id, attribute, new_value, ents)

_check_all_triggers(r, entity_id, attribute, new_value, ents) ==
    check_triggers_from(Automations[r].triggers, 1, entity_id, attribute,
                        new_value, ents)

\* the queryset without its enabled=True filter
candidate_automations_all(en, entity_id, attribute) ==
    SelectSeq([i \in 1..Len(Automations) |-> i],
              LAMBDA r : \E i \in DOMAIN Automations[r].triggers :
                            /\ Automations[r].triggers[i].entity = entity_id
                            /\ Automations[r].triggers[i].attribute = attribute)

\* the queryset of check_automations_for_entity, in primary key order
candidate_automations(en, entity_id, attribute) ==
    SelectSeq([i \in 1..Len(Automations) |-> i],
              LAMBDA r : /\ en[r]
                         /\ \E i \in DOMAIN Automations[r].triggers :
                               /\ Automations[r].triggers[i].entity = entity_id
                               /\ Automations[r].triggers[i].attribute = attribute)

RECURSIVE check_each_automation(_, _, _, _, _, _, _, _)
check_each_automation(rs, w, entity_id, attribute, new_value, ents, devs, t) ==
    IF rs = <<>> THEN w
    ELSE LET r == Head(rs)
             w0 == [w EXCEPT !.evaluated = @ \cup {r}]
             \* line 310: the triggers matched
             w1 == [w0 EXCEPT !.matchLog[r] = Append(@, t)]
             w2 == [w1 EXCEPT !.cacheCount = check_execution_limit_set(@, r, t)]
             w3 == [w2 EXCEPT !.cacheCooldown =
                       should_execute_automation_set(@, r, t, DEFAULT_COOLDOWN_SECONDS)]
             next ==
               IF _check_all_triggers(r, entity_id, attribute, new_value, ents) # "True"
               THEN w0
               ELSE IF ~ check_execution_limit_ok(w1.cacheCount, r, t)
               THEN w1
               ELSE IF ~ should_execute_automation_ok(w2.cacheCooldown, r, t)
               THEN w2
               ELSE execute_automation(w3, r, entity_id, new_value, ents, devs, t)
         IN check_each_automation(Tail(rs), next, entity_id, attribute, new_value,
                                  ents, devs, t)

check_automations_for_entity(w, en, entity_id, attribute, new_value, ents, devs, t) ==
    check_each_automation(candidate_automations(en, entity_id, attribute), w,
                          entity_id, attribute, new_value, ents, devs, t)

(***************************************************************************)
(* core/mqtt/handlers.py                                                   *)
(***************************************************************************)
\* the inference without the test of the entity kind
infer_capabilities_any_kind(value, entity_type) ==
    (IF value.isdict
     THEN (IF "brightness" \in DOMAIN value.d THEN {"brightness"} ELSE {})
          \cup (IF {"r", "g", "b"} \subseteq DOMAIN value.d THEN {"rgb"} ELSE {})
          \cup (IF "speed" \in DOMAIN value.d THEN {"speed"} ELSE {})
     ELSE {})
    \cup (IF entity_type = "sensor" THEN {"read_only"} ELSE {})

infer_capabilities(value, entity_type) ==
    (IF entity_type \in {"light", "fan"} /\ value.isdict
     THEN (IF "brightness" \in DOMAIN value.d THEN {"brightness"} ELSE {})
          \cup (IF {"r", "g", "b"} \subseteq DOMAIN value.d THEN {"rgb"} ELSE {})
          \cup (IF "speed" \in DOMAIN value.d THEN {"speed"} ELSE {})
     ELSE {})
    \cup (IF entity_type = "sensor" THEN {"read_only"} ELSE {})

\* a create in place of the get_or_create: the lookup finds nothing
device_lookup_none(devs, home_id, node_name) == {}

\* Device.objects.get_or_create(home_identifier=..., node_name=...): the lookup
device_lookup(devs, home_id, node_name) ==
    {i \in DOMAIN devs : /\ devs[i].home_identifier = home_id
                         /\ devs[i].node_name = node_name}

\* Entity.objects.get_or_create(device=..., entity_type=..., name=...): the lookup
entity_lookup(ents, device, entity_type, entity_name) ==
    {i \in DOMAIN ents : /\ ents[i].device = device
                         /\ ents[i].entity_type = entity_type
                         /\ ents[i].name = entity_name}

\* unique_together = ("device", "name"): the INSERT raises IntegrityError
entity_unique_conflict(ents, device, entity_name) ==
    \E i \in DOMAIN ents : /\ ents[i].device = device
                           /\ ents[i].name = entity_name

\* '_' in entity_name, and entity_name.split('_')[-1]
has_underscore(name) == name \in {"room_temp"}
last_token(name) == IF name = "room_temp" THEN "temp" ELSE name

attribute_name(entity_type, entity_name) ==
    IF entity_type = "sensor" /\ has_underscore(entity_name)
    THEN last_token(entity_name)
    ELSE "state"

\* only the linked Home is looked at, as core/services/device_control.py does
broadcast_group_home_only(device) ==
    IF device.home # None THEN [ok |-> TRUE, key |-> str_id(device.home)]
    ELSE [ok |-> FALSE, key |-> ""]

\* handlers.py 153-162 / 221-230: the key of the websocket group, if any
broadcast_group(device) ==
    IF device.home # None THEN [ok |-> TRUE, key |-> str_id(device.home)]
    ELSE IF device.home_identifier # "" THEN [ok |-> TRUE, key |-> device.home_identifier]
    ELSE [ok |-> FALSE, key |-> ""]

\* channel_layer.group_send: the channel layer keeps the order of sending
group_send(queue, message) == Append(queue, message)

\* offline only on the literal "offline"
status_not_offline(payload) == payload # "offline"

\* handlers.py 207: the literal "online", anything else is offline
status_online(payload) == payload = "online"

\* EntityAttribute.objects.update_or_create for every item of a dict payload
update_attributes(attrs, entity, value) ==
    IF value.isdict
    THEN {a \in attrs : ~ (a.entity = entity /\ a.key \in DOMAIN value.d)}
         \cup {[entity |-> entity, key |-> k, value |-> value.d[k].v] :
               k \in DOMAIN value.d}
    ELSE attrs

\* handlers.py 133-141: one check per item of a dict, else one check
RECURSIVE check_items(_, _, _, _, _, _, _, _)
check_items(keys, w, en, entity_id, d, ents, devs, t) ==
    IF keys = <<>> THEN w
    ELSE check_items(Tail(keys),
                     check_automations_for_entity(w, en, entity_id, Head(keys),
                                                  d[Head(keys)], ents, devs, t),
                     en, entity_id, d, ents, devs, t)

automation_check(w, en, entity_id, entity_type, entity_name, value, ents, devs, t) ==
    IF value.isdict
    THEN check_items(Items(value.d), w, en, entity_id, value.d, ents, devs, t)
    ELSE check_automations_for_entity(w, en, entity_id,
                                      attribute_name(entity_type, entity_name),
                                      value.s, ents, devs, t)

Unchanged_rules ==
    UNCHANGED <<executions, cacheCount, cacheCooldown, published, matchLog>>

handle_state_message(topic, payload) ==
    LET parsed == parse_topic(topic)
        value == parse_payload(payload)
        found == device_lookup(devices, parsed.home_id, parsed.node_name)
        device_created == found = {}
        devs1 == IF device_created
                 THEN Append(devices,
                        [home |-> None, home_identifier |-> parsed.home_id,
                         node_name |-> parsed.node_name, name |-> parsed.node_name,
                         is_online |-> FALSE, last_seen |-> NoTime])
                 ELSE devices
        device == IF device_created THEN Len(devs1) ELSE CHOOSE i \in found : TRUE
        efound == entity_lookup(entities, device, parsed.entity_type, parsed.entity_name)
        entity_created == efound = {}
        ents1 == IF entity_created
                 THEN Append(entities,
                        [device |-> device, name |-> parsed.entity_name,
                         entity_type |-> parsed.entity_type, state |-> EmptyDict,
                         capabilities |-> infer_capabilities(value, parsed.entity_type),
                         is_controllable |->
                            parsed.entity_type \in {"light", "switch", "fan", "relay", "valve"}])
                 ELSE entities
        entity == IF entity_created THEN Len(ents1) ELSE CHOOSE i \in efound : TRUE
        ents2 == [ents1 EXCEPT ![entity].state = entity_state_update(@, value)]
        devs2 == [devs1 EXCEPT ![device].last_seen = now, ![device].is_online = TRUE]
        w0 == [published |-> published, executions |-> executions,
               cacheCount |-> cacheCount, cacheCooldown |-> cacheCooldown,
               matchLog |-> matchLog, evaluated |-> {}]
        w == automation_check(w0, enabled, entity, parsed.entity_type,
                              parsed.entity_name, value, ents2, devs2, now)
        group == broadcast_group(devs2[device])
    IN IF ~ parsed.ok
       \* Invalid topic format
       THEN /\ last' = [NoOp EXCEPT !.op = "state", !.topic = topic, !.payload = payload]
            /\ UNCHANGED <<devices, entities, history, attributes, wsQueue>>
            /\ Unchanged_rules
       ELSE IF Cardinality(found) > 1 \/ Cardinality(efound) > 1
       \* MultipleObjectsReturned, caught at line 179
       THEN /\ last' = [NoOp EXCEPT !.op = "state", !.topic = topic, !.payload = payload]
            /\ UNCHANGED <<devices, entities, history, attributes, wsQueue>>
            /\ Unchanged_rules
       ELSE IF entity_created /\ entity_unique_conflict(entities, device, parsed.entity_name)
       \* IntegrityError of the INSERT, caught at line 179
       THEN /\ last' = [NoOp EXCEPT !.op = "state", !.topic = topic, !.payload = payload,
                                    !.device = device, !.device_created = device_created]
            /\ devices' = devs1
            /\ UNCHANGED <<entities, history, attributes, wsQueue>>
            /\ Unchanged_rules
       ELSE /\ devices' = devs2
            /\ entities' = ents2
            /\ history' = Append(history, [entity |-> entity, value |-> ents2[entity].state])
            /\ attributes' = update_attributes(attributes, entity, value)
            /\ published' = w.published
            /\ executions' = w.executions
            /\ cacheCount' = w.cacheCount
            /\ cacheCooldown' = w.cacheCooldown
            /\ matchLog' = w.matchLog
            /\ wsQueue' = IF group.ok
                          THEN group_send(wsQueue,
                                 [group |-> group.key, type |-> "entity_state",
                                  entity_id |-> entity, state |-> ents2[entity].state,
                                  device_id |-> device,
                                  is_online |-> devs2[device].is_online])
                          ELSE wsQueue
            /\ last' = [NoOp EXCEPT !.op = "state", !.topic = topic, !.payload = payload,
                                    !.ok = TRUE, !.device = device, !.entity = entity,
                                    !.device_created = device_created,
                                    !.entity_created = entity_created,
                                    !.evaluated = w.evaluated]

handle_status_message(topic, payload) ==
    LET found == IF Len(topic) = 4 THEN device_lookup(devices, topic[2], topic[3]) ELSE {}
        device == CHOOSE i \in found : TRUE
        devs1 == IF status_online(payload)
                 THEN [devices EXCEPT ![device].is_online = TRUE, ![device].last_seen = now]
                 ELSE [devices EXCEPT ![device].is_online = FALSE]
        group == broadcast_group(devs1[device])
    IN IF Len(topic) # 4 \/ Cardinality(found) # 1
       \* Invalid status topic format, or Device.DoesNotExist
       THEN /\ last' = [NoOp EXCEPT !.op = "status", !.topic = topic, !.payload = payload]
            /\ UNCHANGED <<devices, wsQueue>>
       ELSE /\ devices' = devs1
            /\ wsQueue' = IF group.ok
                          THEN group_send(wsQueue,
                                 [group |-> group.key, type |-> "device_status",
                                  entity_id |-> None, state |-> EmptyDict,
                                  device_id |-> device,
                                  is_online |-> devs1[device].is_online])
                          ELSE wsQueue
            /\ last' = [NoOp EXCEPT !.op = "status", !.topic = topic, !.payload = payload,
                                    !.ok = TRUE, !.device = device]

(***************************************************************************)
(* core/mqtt/client.py on_message                                          *)
(***************************************************************************)
ReceiveStatus(topic, payload, max) ==
    /\ UNCHANGED <<bridgeVars, evaluations>>
    /\ nmsgs < max
    /\ endswith_status(topic)
    /\ handle_status_message(topic, payload)
    /\ nmsgs' = nmsgs + 1
    /\ UNCHANGED <<entities, history, attributes, enabled, celery, wsSent, now,
                   ntoggles, nticks>>
    /\ Unchanged_rules

ReceiveState(topic, payload, max) ==
    /\ UNCHANGED <<bridgeVars, evaluations>>
    /\ nmsgs < max
    /\ ~ endswith_status(topic)
    /\ handle_state_message(topic, payload)
    /\ nmsgs' = nmsgs + 1
    /\ UNCHANGED <<enabled, celery, wsSent, now, ntoggles, nticks>>

on_message(msgs, max) ==
    \E m \in msgs :
        \/ ReceiveStatus(m[1], m[2], max)
        \/ ReceiveState(m[1], m[2], max)

(***************************************************************************)
(* core/management/commands/device_health_check.py                         *)
(***************************************************************************)
\* last_seen__lte in place of last_seen__lt
stale_devices_lte(devs, threshold) ==
    {i \in DOMAIN devs : /\ devs[i].is_online
                         /\ devs[i].last_seen # NoTime
                         /\ devs[i].last_seen <= threshold}

stale_devices(devs, threshold) ==
    {i \in DOMAIN devs : /\ devs[i].is_online
                         /\ devs[i].last_seen # NoTime
                         /\ devs[i].last_seen < threshold}

device_health_check ==
    LET threshold == now - HEARTBEAT_TIMEOUT
        stale == stale_devices(devices, threshold)
        count == Cardinality(stale)
    IN /\ UNCHANGED <<bridgeVars, evaluations>>
       /\ devices' = [i \in DOMAIN devices |->
                        IF i \in stale THEN [devices[i] EXCEPT !.is_online = FALSE]
                        ELSE devices[i]]
       \* repeat: the previous operation was this same sweep
       /\ last' = [NoOp EXCEPT !.op = "sweep", !.count = count, !.threshold = threshold,
                               !.ok = TRUE,
                               !.repeat = (last.op = "sweep" /\ last.threshold = threshold),
                               !.prev_count = IF last.op = "sweep" /\ last.threshold = threshold
                                              THEN (IF last.repeat THEN last.prev_count
                                                    ELSE last.count)
                                              ELSE 0]
       /\ UNCHANGED <<entities, history, attributes, enabled, celery, wsQueue, wsSent,
                      now, nmsgs, ntoggles, nticks>>
       /\ Unchanged_rules

(***************************************************************************)
(* core/api/automations.py AutomationToggleView.post                       *)
(***************************************************************************)
AutomationToggle(r) ==
    /\ UNCHANGED <<bridgeVars, evaluations>>
    /\ ntoggles < MaxToggles
    /\ enabled' = [enabled EXCEPT ![r] = ~ @]
    /\ ntoggles' = ntoggles + 1
    /\ last' = [NoOp EXCEPT !.op = "toggle", !.ok = TRUE]
    /\ UNCHANGED <<devices, entities, history, attributes, celery, wsQueue, wsSent,
                   now, nmsgs, nticks>>
    /\ Unchanged_rules

(***************************************************************************)
(* core/tasks_scheduler.py                                                 *)
(***************************************************************************)
MinutesPerDay == 1440
\* weekday of the day the clock starts in (0 = Monday)
EpochWeekday == 3

local_minutes(home, t) == (t \div 60) + Homes[home].timezone

_check_time_trigger(trigger, home, t) ==
    /\ trigger.time_of_day # NoTime =>
          trigger.time_of_day = local_minutes(home, t) % MinutesPerDay
    /\ trigger.days_of_week # {} =>
          ((EpochWeekday + (local_minutes(home, t) \div MinutesPerDay)) % 7)
             \in trigger.days_of_week

\* SunCalculator is imported inside check_time_automations only: the name is
\* unbound here, the NameError is caught and the trigger reported as false
_check_sun_trigger(trigger, home, t) ==
    IF trigger.sun_event = "" THEN FALSE
    ELSE FALSE

trigger_results(r, t) ==
    LET ts == SelectSeq(Automations[r].triggers,
                        LAMBDA tr : tr.trigger_type \in {"time", "sun"})
    IN [i \in DOMAIN ts |->
          IF ts[i].trigger_type = "time"
          THEN _check_time_trigger(ts[i], Automations[r].home, t)
          ELSE _check_sun_trigger(ts[i], Automations[r].home, t)]

should_trigger(r, t) ==
    LET results == trigger_results(r, t)
    IN IF Automations[r].trigger_logic = "AND"
       THEN results # <<>> /\ \A i \in DOMAIN results : results[i]
       ELSE \E i \in DOMAIN results : results[i]

\* executed_at of the latest AutomationExecution of the rule, if any
_is_in_cooldown(execs, r, t) ==
    LET mine == SelectSeq(execs, LAMBDA x : x.automation = r)
    IN /\ Automations[r].cooldown_seconds > 0
       /\ mine # <<>>
       /\ \E i \in DOMAIN mine :
             /\ \A j \in DOMAIN mine : mine[j].executed_at <= mine[i].executed_at
             /\ t < mine[i].executed_at + Automations[r].cooldown_seconds

\* control_entity of core/tasks.py is a plain function: control_entity.delay
\* raises AttributeError, caught per action; run_scene.delay queues the task
RECURSIVE queue_actions(_, _, _, _)
queue_actions(actions, i, acc, r) ==
    IF i > Len(actions) THEN acc
    ELSE LET action == actions[i]
         IN IF action.entity # None /\ action.has_command /\ action.command # EmptyDict
            THEN queue_actions(actions, i + 1,
                    [acc EXCEPT !.attempts = Append(@, [index |-> i, ok |-> FALSE])], r)
            ELSE IF action.scene # None
            THEN queue_actions(actions, i + 1,
                    [acc EXCEPT
                       !.celery = Append(@, [task |-> "run_scene",
                                             scene |-> action.scene, by |-> r]),
                       !.attempts = Append(@, [index |-> i, ok |-> TRUE])], r)
            ELSE queue_actions(actions, i + 1, acc, r)

\* the AutomationExecution row is created first, with the defaults of the model
\* (success = True), and is not touched again
_execute_automation_actions(w, r, t) ==
    LET res == queue_actions(Automations[r].actions, 1,
                             [celery |-> w.celery, attempts |-> <<>>], r)
    IN [w EXCEPT
          !.executions = Append(@, [automation |-> r, executed_at |-> t,
                                    success |-> TRUE, error_message |-> "",
                                    trigger_entity |-> None, trigger_value |-> "",
                                    attempts |-> res.attempts]),
          !.celery = res.celery]

timed_automations(en) ==
    SelectSeq([i \in 1..Len(Automations) |-> i],
              LAMBDA r : /\ en[r]
                         /\ \E i \in DOMAIN Automations[r].triggers :
                               Automations[r].triggers[i].trigger_type \in {"time", "sun"})

RECURSIVE check_each_timed(_, _, _)
check_each_timed(rs, w, t) ==
    IF rs = <<>> THEN w
    ELSE LET r == Head(rs)
             w1 == [w EXCEPT !.evaluated = @ \cup {r}]
         IN check_each_timed(Tail(rs),
               IF should_trigger(r, t) /\ ~ _is_in_cooldown(w1.executions, r, t)
               THEN _execute_automation_actions(w1, r, t)
               ELSE w1,
               t)

\* the k-th periodic run happens at or after minute k
check_time_automations ==
    LET w == check_each_timed(timed_automations(enabled),
                              [executions |-> executions, celery |-> celery,
                               evaluated |-> {}], now)
    IN /\ UNCHANGED <<bridgeVars, evaluations>>
       /\ nticks < MaxTicks
       /\ now >= 60 * nticks
       /\ nticks' = nticks + 1
       /\ executions' = w.executions
       /\ celery' = w.celery
       /\ last' = [NoOp EXCEPT !.op = "tick", !.ok = TRUE, !.evaluated = w.evaluated]
       /\ UNCHANGED <<devices, entities, history, attributes, enabled, cacheCount,
                      cacheCooldown, published, matchLog, wsQueue, wsSent, now, nmsgs,
                      ntoggles>>

(***************************************************************************)
(* core/tasks.py run_scene, run by a celery worker                         *)
(***************************************************************************)
\* control_entity(entity, command): the import of its first line is outside
\* the try and core.mqtt.client defines no mqtt_client, so the call raises
\* ImportError before anything is published or stored
tasks_control_entity(pub, ents, entity, command) ==
    [raised |-> TRUE, published |-> pub, entities |-> ents]

\* the loop of run_scene from the i-th action on; the task returns nothing
RECURSIVE run_scene_actions(_, _, _)
run_scene_actions(actions, i, acc) ==
    IF i > Len(actions) THEN acc
    ELSE LET res == tasks_control_entity(acc.published, acc.entities,
                                         actions[i].entity, actions[i].value)
         IN IF res.raised
            THEN [acc EXCEPT !.attempted = i, !.raised = TRUE]
            ELSE run_scene_actions(actions, i + 1,
                    [acc EXCEPT !.attempted = i, !.published = res.published,
                                !.entities = res.entities])

run_scene ==
    /\ UNCHANGED <<bridgeVars, evaluations>>
    /\ celery # <<>>
    /\ LET scene_id == Head(celery).scene
           res == run_scene_actions(Scenes[scene_id].actions, 1,
                     [attempted |-> 0, raised |-> FALSE, published |-> published,
                      entities |-> entities])
       IN /\ published' = res.published
          /\ entities' = res.entities
          /\ last' = [NoOp EXCEPT !.op = "run_scene", !.ok = ~ res.raised,
                                  !.scene = scene_id, !.attempted = res.attempted,
                                  !.raised = res.raised]
    /\ celery' = Tail(celery)
    /\ UNCHANGED <<devices, history, attributes, enabled, wsQueue, wsSent, now, nmsgs,
                   ntoggles, nticks, executions, cacheCount, cacheCooldown, matchLog>>

(***************************************************************************)
(* core/ws/consumers.py HomeConsumer.send_state_update                     *)
(***************************************************************************)
\* a consumer is connected to every home group; the channel layer is FIFO
send_state_update ==
    /\ UNCHANGED <<bridgeVars, evaluations>>
    /\ wsQueue # <<>>
    /\ wsSent' = Append(wsSent, Head(wsQueue))
    /\ wsQueue' = Tail(wsQueue)
    /\ UNCHANGED <<devices, entities, history, attributes, enabled, celery, now, last,
                   nmsgs, ntoggles, nticks>>
    /\ Unchanged_rules

(***************************************************************************)
(* The clock                                                               *)
(***************************************************************************)
ClockStep == 30

AdvanceClock ==
    /\ UNCHANGED <<bridgeVars, evaluations>>
    /\ now + ClockStep <= MaxTime
    /\ now' = now + ClockStep
    /\ UNCHANGED <<devices, entities, history, attributes, enabled, celery, wsQueue,
                   wsSent, last, nmsgs, ntoggles, nticks>>
    /\ Unchanged_rules

\* time passing between two messages of a burst
StormSteps == {30, 31}

Elapse(d) ==
    /\ UNCHANGED <<bridgeVars, evaluations>>
    /\ now + d <= MaxTime
    /\ now' = now + d
    /\ UNCHANGED <<devices, entities, history, attributes, enabled, celery, wsQueue,
                   wsSent, last, nmsgs, ntoggles, nticks>>
    /\ Unchanged_rules

(***************************************************************************)
(* Specification                                                           *)
(***************************************************************************)
\* ingestion, the liveness sweep and the websocket fan-out
Next ==
    \/ on_message(IngestMessages, MaxMsgs)
    \/ device_health_check
    \/ send_state_update
    \/ AdvanceClock

Spec == Init /\ [][Next]_vars

\* the rules the toggle endpoint is called for: one of the state-change
\* driver, one of the tick driver, one that both drivers select
ToggledRules == {1, 3, 7}

\* the two automation drivers
NextRules ==
    \/ on_message(RuleMessages, MaxRuleMsgs)
    \/ \E r \in ToggledRules : AutomationToggle(r)
    \/ check_time_automations
    \/ run_scene
    \/ AdvanceClock

SpecRules == Init /\ [][NextRules]_vars

\* a burst of state changes of the lamp, all of them satisfying rule 1
StormMessages == { <<LampTopic, "ON">> }

NextStorm ==
    \/ \E m \in StormMessages : ReceiveState(m[1], m[2], MaxStormMsgs)
    \/ \E d \in StormSteps : Elapse(d)

SpecStorm == Init /\ [][NextStorm]_vars

(***************************************************************************)
(* core/automation_executor.py, one cache or database call at a time       *)
(***************************************************************************)
MaxEvaluations == 3

\* the rules whose evaluations overlap
ConcurrentRules == {1}

Unchanged_evaluation ==
    UNCHANGED <<devices, entities, history, attributes, enabled, celery, wsQueue,
                wsSent, now, last, ntoggles, nticks, bridgeVars>>

\* lines 305-310: a change of lamp.state to ON reaches worker p, and the
\* triggers of rule r match
check_all_triggers_step(p, r) ==
    /\ evaluations[p].pc = "idle"
    /\ nmsgs < MaxEvaluations
    /\ enabled[r]
    /\ _check_all_triggers(r, 1, "state", Str("ON"), entities) = "True"
    /\ nmsgs' = nmsgs + 1
    /\ matchLog' = [matchLog EXCEPT ![r] = Append(@, now)]
    /\ evaluations' = [evaluations EXCEPT ![p] = [pc |-> "limit_get", rule |-> r,
                                                  count |-> 0]]
    /\ UNCHANGED <<executions, cacheCount, cacheCooldown, published>>
    /\ Unchanged_evaluation

\* check_execution_limit, lines 63-72: count = cache.get(key, 0) and its test
check_execution_limit_get(p) ==
    /\ evaluations[p].pc = "limit_get"
    /\ LET count == cache_get_count(cacheCount, evaluations[p].rule, now)
       IN evaluations' = [evaluations EXCEPT
                            ![p] = IF count >= MAX_EXECUTIONS_PER_MINUTE
                                   THEN IdleEvaluation
                                   ELSE [@ EXCEPT !.pc = "limit_set", !.count = count]]
    /\ UNCHANGED <<executions, cacheCount, cacheCooldown, published, matchLog, nmsgs>>
    /\ Unchanged_evaluation

\* check_execution_limit, line 73: cache.set(key, count + 1, timeout=60)
check_execution_limit_put(p) ==
    /\ evaluations[p].pc = "limit_set"
    /\ LET r == evaluations[p].rule
       IN cacheCount' = [cacheCount EXCEPT
                           ![r] = [count |-> evaluations[p].count + 1,
                                   expires |-> now + RATE_KEY_TIMEOUT,
                                   since |-> IF now < cacheCount[r].expires
                                             THEN cacheCount[r].since ELSE now]]
    /\ evaluations' = [evaluations EXCEPT ![p].pc = "cooldown_get"]
    /\ UNCHANGED <<executions, cacheCooldown, published, matchLog, nmsgs>>
    /\ Unchanged_evaluation

\* should_execute_automation, lines 90-92: cache.get(cooldown_key)
should_execute_automation_get(p) ==
    /\ evaluations[p].pc = "cooldown_get"
    /\ evaluations' = [evaluations EXCEPT
                         ![p] = IF should_execute_automation_ok(cacheCooldown,
                                                                evaluations[p].rule, now)
                                THEN [@ EXCEPT !.pc = "cooldown_set"]
                                ELSE IdleEvaluation]
    /\ UNCHANGED <<executions, cacheCount, cacheCooldown, published, matchLog, nmsgs>>
    /\ Unchanged_evaluation

\* should_execute_automation, line 94: cache.set(cooldown_key, True, timeout)
should_execute_automation_put(p) ==
    /\ evaluations[p].pc = "cooldown_set"
    /\ cacheCooldown' = [cacheCooldown EXCEPT
                           ![evaluations[p].rule] = now + DEFAULT_COOLDOWN_SECONDS]
    /\ evaluations' = [evaluations EXCEPT ![p].pc = "execute"]
    /\ UNCHANGED <<executions, cacheCount, published, matchLog, nmsgs>>
    /\ Unchanged_evaluation

\* line 327: cls.execute_automation(automation, entity_id, new_value)
execute_automation_step(p) ==
    /\ evaluations[p].pc = "execute"
    /\ LET w == execute_automation([published |-> published, executions |-> executions],
                                   evaluations[p].rule, 1, Str("ON"), entities,
                                   devices, now)
       IN /\ published' = w.published
          /\ executions' = w.executions
    /\ evaluations' = [evaluations EXCEPT ![p] = IdleEvaluation]
    /\ UNCHANGED <<cacheCount, cacheCooldown, matchLog, nmsgs>>
    /\ Unchanged_evaluation

\* an evaluation is short: the clock moves between evaluations only
ElapseIdle(d) ==
    /\ \A p \in Workers : evaluations[p].pc = "idle"
    /\ Elapse(d)

\* evaluations of one rule by two workers, their cache calls interleaved
NextConcurrent ==
    \/ \E p \in Workers : \E r \in ConcurrentRules : check_all_triggers_step(p, r)
    \/ \E p \in Workers : check_execution_limit_get(p)
    \/ \E p \in Workers : check_execution_limit_put(p)
    \/ \E p \in Workers : should_execute_automation_get(p)
    \/ \E p \in Workers : should_execute_automation_put(p)
    \/ \E p \in Workers : execute_automation_step(p)
    \/ \E d \in StormSteps : ElapseIdle(d)

SpecConcurrent == Init /\ [][NextConcurrent]_vars

(***************************************************************************)
(* core/services/cloud_bridge_client.py CloudBridgeClient                   *)
(*                                                                         *)
(* bridge.pc is the position of run(): "init" before it is called,         *)
(* "connect" while connect() is awaited, "gather" while asyncio.gather     *)
(* waits for the two loops, "sleep" in asyncio.sleep(reconnect_delay),     *)
(* "exit" after the while loop.  bridge.receive and bridge.ping are the    *)
(* positions of receive_loop and ping_loop.  bridge.websocket is the       *)
(* attribute self.websocket ("None" or "conn", the connection made by the  *)
(* last connect()), bridge.sock the state of that connection.  slept,      *)
(* prev_slept and stopped record the last two waits and the call of stop().*)
(***************************************************************************)
\* reconnect_delay = min(reconnect_delay * 2, max_reconnect_delay)
next_reconnect_delay_unbounded(delay, max) == delay * 2

next_reconnect_delay(delay, max) == IF delay * 2 < max THEN delay * 2 ELSE max

\* run(), up to the first await
bridge_run ==
    /\ bridge.pc = "init"
    /\ bridge' = [bridge EXCEPT !.running = TRUE, !.pc = "connect"]
    /\ UNCHANGED <<cloud, gateway, nreqs>>
    /\ UNCHANGED hubVars

\* the end of a wait of run(): `if self.running: await asyncio.sleep(...)`
bridge_after_attempt(b) ==
    IF b.running
    THEN [b EXCEPT !.pc = "sleep", !.prev_slept = b.slept,
                   !.slept = b.reconnect_delay]
    ELSE [b EXCEPT !.pc = "exit"]

\* connect() returns; on success run() starts the two loops under gather
bridge_connect(ok) ==
    /\ bridge.pc = "connect"
    /\ bridge' =
         IF ok
         THEN [bridge EXCEPT !.websocket = "conn", !.sock = "open",
                             !.reconnect_delay = BRIDGE_RECONNECT_DELAY,
                             !.pc = "gather", !.receive = "run",
                             !.ping = IF bridge.running THEN "run" ELSE "done"]
         ELSE bridge_after_attempt(bridge)
    /\ UNCHANGED <<cloud, gateway, nreqs>>
    /\ UNCHANGED hubVars

\* the cloud, or the network, closes the connection
bridge_remote_close ==
    /\ bridge.sock = "open"
    /\ bridge' = [bridge EXCEPT !.sock = "closed"]
    /\ UNCHANGED <<cloud, gateway, nreqs>>
    /\ UNCHANGED hubVars

\* receive_loop: the iteration over the connection ends with ConnectionClosed
receive_loop ==
    /\ bridge.receive = "run"
    /\ bridge.sock = "closed"
    /\ bridge' = [bridge EXCEPT !.receive = "done"]
    /\ UNCHANGED <<cloud, gateway, nreqs>>
    /\ UNCHANGED hubVars

\* ping_loop: one sleep of ping_interval, a ping whose failure send_message
\* swallows, and the test of self.running
ping_loop ==
    /\ bridge.ping = "run"
    /\ bridge' = [bridge EXCEPT !.ping = IF bridge.running THEN "run" ELSE "done"]
    /\ UNCHANGED <<cloud, gateway, nreqs>>
    /\ UNCHANGED hubVars

\* disconnect(): closes self.websocket if there is one
bridge_disconnect(b) ==
    IF b.websocket = "conn"
    THEN [b EXCEPT !.websocket = "None", !.sock = "closed"]
    ELSE b

\* asyncio.gather returns once both loops have returned; finally: disconnect()
bridge_gather_done ==
    /\ bridge.pc = "gather"
    /\ bridge.receive = "done"
    /\ bridge.ping = "done"
    /\ bridge' = bridge_after_attempt(bridge_disconnect(bridge))
    /\ UNCHANGED <<cloud, gateway, nreqs>>
    /\ UNCHANGED hubVars

\* the sleep of run() ends: the delay is doubled and the loop tests running
bridge_sleep_done ==
    /\ bridge.pc = "sleep"
    /\ bridge' = [bridge EXCEPT
                    !.reconnect_delay =
                        next_reconnect_delay(bridge.reconnect_delay,
                                             BRIDGE_MAX_RECONNECT_DELAY),
                    !.pc = IF bridge.running THEN "connect" ELSE "exit"]
    /\ UNCHANGED <<cloud, gateway, nreqs>>
    /\ UNCHANGED hubVars

\* stop()
bridge_stop ==
    /\ bridge.pc \notin {"init", "exit"}
    /\ ~ bridge.stopped
    /\ bridge' = [bridge_disconnect(bridge) EXCEPT !.running = FALSE,
                                                  !.stopped = TRUE]
    /\ UNCHANGED <<cloud, gateway, nreqs>>
    /\ UNCHANGED hubVars

(***************************************************************************)
(* core/cloud_client.py CloudClient                                         *)
(*                                                                         *)
(* cloud.pc is the position of connection_loop: "connect" inside           *)
(* websockets.connect, "listen" in the `async for` of connect_and_listen,  *)
(* "sleep" in asyncio.sleep(reconnect_delay), "exit" after the loop.       *)
(* cloud.heartbeat is the position of the heartbeat task, cloud.ws the     *)
(* attribute self.ws, cloud.sock the state of the connection it refers to, *)
(* cloud.out the messages sent to the cloud.                               *)
(***************************************************************************)
\* start(): self.running = True and the connection loop is scheduled
cloud_start ==
    /\ cloud.pc = "init"
    /\ cloud' = [cloud EXCEPT !.running = TRUE, !.pc = "connect"]
    /\ UNCHANGED <<bridge, gateway, nreqs>>
    /\ UNCHANGED hubVars

\* connection_loop after connect_and_listen has returned or raised
connection_loop(c) ==
    IF c.running
    THEN [c EXCEPT !.pc = "sleep", !.prev_slept = c.slept,
                   !.slept = c.reconnect_delay]
    ELSE [c EXCEPT !.pc = "exit"]

\* connect_and_listen: websockets.connect returns or raises
connect_and_listen(ok) ==
    /\ cloud.pc = "connect"
    /\ cloud' =
         IF ok
         THEN [cloud EXCEPT !.ws = "conn", !.sock = "open", !.connected = TRUE,
                            !.reconnect_delay = CLOUD_RECONNECT_DELAY,
                            !.heartbeat = "run", !.pc = "listen"]
         ELSE connection_loop(cloud)
    /\ UNCHANGED <<bridge, gateway, nreqs>>
    /\ UNCHANGED hubVars

cloud_remote_close ==
    /\ cloud.sock = "open"
    /\ cloud' = [cloud EXCEPT !.sock = "closed"]
    /\ UNCHANGED <<bridge, gateway, nreqs>>
    /\ UNCHANGED hubVars

\* the `async for` ends on a closed connection; finally: the heartbeat task is
\* cancelled and connected is cleared
listen_end ==
    /\ cloud.pc = "listen"
    /\ cloud.sock = "closed"
    /\ cloud' = connection_loop([cloud EXCEPT !.heartbeat = "done",
                                              !.connected = FALSE])
    /\ UNCHANGED <<bridge, gateway, nreqs>>
    /\ UNCHANGED hubVars

\* heartbeat: one sleep of 30 s, a ping whose failure send_message swallows,
\* and the test of self.connected
heartbeat ==
    /\ cloud.heartbeat = "run"
    /\ cloud' = [cloud EXCEPT
                   !.heartbeat = IF cloud.connected THEN "run" ELSE "done"]
    /\ UNCHANGED <<bridge, gateway, nreqs>>
    /\ UNCHANGED hubVars

\* the sleep of connection_loop ends
cloud_sleep_done ==
    /\ cloud.pc = "sleep"
    /\ cloud' = [cloud EXCEPT
                   !.reconnect_delay =
                       next_reconnect_delay(cloud.reconnect_delay,
                                            CLOUD_MAX_RECONNECT_DELAY),
                   !.pc = IF cloud.running THEN "connect" ELSE "exit"]
    /\ UNCHANGED <<bridge, gateway, nreqs>>
    /\ UNCHANGED hubVars

\* stop(): running = False; `if self.ws: await self.ws.close()`
cloud_stop ==
    /\ cloud.pc \notin {"init", "exit"}
    /\ ~ cloud.stopped
    /\ cloud' = [cloud EXCEPT !.running = FALSE, !.stopped = TRUE,
                              !.sock = IF cloud.ws = "conn" THEN "closed" ELSE @]
    /\ UNCHANGED <<bridge, gateway, nreqs>>
    /\ UNCHANGED hubVars

\* the life cycles of the two clients
NextBridge ==
    \/ bridge_run
    \/ \E ok \in BOOLEAN : bridge_connect(ok)
    \/ bridge_remote_close
    \/ receive_loop
    \/ ping_loop
    \/ bridge_gather_done
    \/ bridge_sleep_done
    \/ bridge_stop
    \/ cloud_start
    \/ \E ok \in BOOLEAN : connect_and_listen(ok)
    \/ cloud_remote_close
    \/ listen_end
    \/ heartbeat
    \/ cloud_sleep_done
    \/ cloud_stop

SpecBridge == Init /\ [][NextBridge]_vars

\* the event loop runs every task that is ready, and an awaited connect or
\* sleep returns; nothing is assumed about the cloud or about stop()
FairBridge ==
    /\ WF_vars(bridge_run)
    /\ WF_vars(\E ok \in BOOLEAN : bridge_connect(ok))
    /\ WF_vars(receive_loop)
    /\ WF_vars(ping_loop)
    /\ WF_vars(bridge_gather_done)
    /\ WF_vars(bridge_sleep_done)
    /\ WF_vars(cloud_start)
    /\ WF_vars(\E ok \in BOOLEAN : connect_and_listen(ok))
    /\ WF_vars(listen_end)
    /\ WF_vars(heartbeat)
    /\ WF_vars(cloud_sleep_done)

SpecBridgeFair == SpecBridge /\ FairBridge

(***************************************************************************)
(* Requests of the cloud: core/cloud_client.py handle_message and           *)
(* connect_to_cloud.py cloud_consumer                                       *)
(*                                                                         *)
(* A request is the decoded JSON object; an outbound message is            *)
(* [type, request_id, status, devices] plus `pubs`, the number of MQTT     *)
(* commands published when it was sent.  inbox keeps what a client has     *)
(* received, with the number of commands published at that moment.         *)
(***************************************************************************)
Request(type, entity_id, scene_id, command, value) ==
    [type |-> type, entity_id |-> entity_id, scene_id |-> scene_id,
     command |-> command, value |-> value]

\* entity 9 and scene 9 do not exist
CloudRequests ==
    { Request("get_devices", None, None, "", NullScalar),
      Request("control_entity", 1, None, "on", NullScalar),
      Request("control_entity", 3, None, "set_value", Num("2")),
      Request("control_entity", 1, None, "value", Str("off")),
      Request("control_entity", 9, None, "on", NullScalar),
      Request("run_scene", None, 1, "", NullScalar),
      Request("run_scene", None, 9, "", NullScalar),
      Request("pong", None, None, "", NullScalar) }

OutMessage(type, request_id, status, devs, pubs) ==
    [type |-> type, request_id |-> request_id, status |-> status,
     devices |-> devs, pubs |-> pubs]

Received(q, request_id, pubs) ==
    [type |-> q.type, request_id |-> request_id, entity_id |-> q.entity_id,
     scene_id |-> q.scene_id, pubs |-> pubs]

\* str.upper() on the command vocabulary
upper(s) ==
    CASE s = "on" -> "ON"
      [] s = "off" -> "OFF"
      [] s = "turn_on" -> "TURN_ON"
      [] s = "turn_off" -> "TURN_OFF"
      [] s = "value" -> "VALUE"
      [] s = "set_value" -> "SET_VALUE"
      [] OTHER -> s

\* the payload built from the normalized command vocabulary
command_payload(command, value) ==
    LET cmd_upper == upper(command)
    IN IF cmd_upper \in {"ON", "TURN_ON"} THEN "power" :> Bool("True")
       ELSE IF cmd_upper \in {"OFF", "TURN_OFF"} THEN "power" :> Bool("False")
       ELSE IF cmd_upper = "VALUE" /\ value # NullScalar
       THEN IF upper(value.v) = "ON" THEN "power" :> Bool("True")
            ELSE IF upper(value.v) = "OFF" THEN "power" :> Bool("False")
            ELSE "value" :> value
       ELSE IF cmd_upper = "SET_VALUE" THEN "value" :> value
       ELSE EmptyDict

\* cloud_consumer's conversion to the ESPHome format
esphome_payload(payload) ==
    IF "power" \in DOMAIN payload /\ Cardinality(DOMAIN payload) = 1
    THEN WireScalar(Str(IF payload["power"] = Bool("True") THEN "ON" ELSE "OFF"))
    ELSE IF "value" \in DOMAIN payload /\ Cardinality(DOMAIN payload) = 1
    THEN WireScalar(payload["value"])
    ELSE WireJson(payload)

\* core/mqtt/publisher.py send_entity_command: builds the payload from the
\* command vocabulary and publishes it on the entity's command topic
send_entity_command(pub, entity, command, value, devs) ==
    publish_command(pub, command_topic(entity, devs),
                    DictValue(command_payload(command, value)), 0)

\* CloudClient.send_device_list: the entities of Home.objects.first()
send_device_list(request_id, pub, ents, devs) ==
    IF Homes = <<>>
    THEN [out |-> <<>>, published |-> pub]
    ELSE [out |-> << OutMessage("devices_response", request_id, "",
                                { e \in DOMAIN ents : devs[ents[e].device].home = 1 },
                                Len(pub)) >>,
          published |-> pub]

\* CloudClient.handle_control_command
handle_control_command(data, request_id, pub, ents, devs) ==
    IF data.entity_id \notin DOMAIN ents
    THEN [out |-> << OutMessage("error", request_id, "", {}, Len(pub)) >>,
          published |-> pub]
    ELSE LET sent == send_entity_command(pub, ents[data.entity_id], data.command,
                                         data.value, devs)
         IN [out |-> << OutMessage("ack", request_id, "success", {}, Len(sent)) >>,
             published |-> sent]

\* CloudClient.handle_run_scene: the Scene model has no method execute, the
\* AttributeError is answered like any other failure
handle_run_scene(data, request_id, pub) ==
    [out |-> << OutMessage("error", request_id, "", {}, Len(pub)) >>,
     published |-> pub]

\* CloudClient.handle_message, for a message that arrives while listening
handle_message(data) ==
    /\ cloud.pc = "listen"
    /\ cloud.sock = "open"
    /\ nreqs < MaxRequests
    /\ LET request_id == nreqs + 1
           res == CASE data.type = "get_devices" ->
                         send_device_list(request_id, published, entities, devices)
                    [] data.type = "control_entity" ->
                         handle_control_command(data, request_id, published,
                                                entities, devices)
                    [] data.type = "run_scene" ->
                         handle_run_scene(data, request_id, published)
                    [] OTHER -> [out |-> <<>>, published |-> published]
       IN /\ cloud' = [cloud EXCEPT
                         !.out = @ \o res.out,
                         !.inbox = Append(@, Received(data, request_id,
                                                      Len(published)))]
          /\ published' = res.published
    /\ nreqs' = nreqs + 1
    /\ UNCHANGED <<bridge, gateway>>
    /\ UNCHANGED <<devices, entities, history, attributes, enabled, executions,
                   cacheCount, cacheCooldown, matchLog, celery, wsQueue, wsSent,
                   now, last, nmsgs, ntoggles, nticks, evaluations>>

\* get_devices_from_db(LOCAL_HOME_ID): the devices of home 1
get_devices_from_db(home_id, devs) == { i \in DOMAIN devs : devs[i].home = home_id }

\* connect_to_cloud: websockets.connect returns or raises
connect_to_cloud(ok) ==
    /\ gateway.pc = "connect"
    /\ gateway' = [gateway EXCEPT !.pc = IF ok THEN "connected" ELSE "sleep"]
    /\ UNCHANGED <<bridge, cloud, nreqs>>
    /\ UNCHANGED hubVars

\* the connection ends: the consumer task finishes, the producer is
\* cancelled and the loop sleeps 5 s
gateway_closed ==
    /\ gateway.pc = "connected"
    /\ gateway' = [gateway EXCEPT !.pc = "sleep"]
    /\ UNCHANGED <<bridge, cloud, nreqs>>
    /\ UNCHANGED hubVars

gateway_sleep_done ==
    /\ gateway.pc = "sleep"
    /\ gateway' = [gateway EXCEPT !.pc = "connect"]
    /\ UNCHANGED <<bridge, cloud, nreqs>>
    /\ UNCHANGED hubVars

\* cloud_consumer: one message of the `async for`
cloud_consumer(data) ==
    /\ gateway.pc = "connected"
    /\ nreqs < MaxRequests
    /\ LET request_id == nreqs + 1
           got == Received(data, request_id, Len(published))
       IN IF data.type = "get_devices"
          THEN /\ gateway' =
                    [gateway EXCEPT
                       !.out = Append(@, OutMessage("get_devices_response",
                                                    request_id, "",
                                                    get_devices_from_db(1, devices),
                                                    Len(published))),
                       !.inbox = Append(@, got)]
               /\ UNCHANGED published
          ELSE IF data.type = "control_entity" /\ data.entity_id \in DOMAIN entities
          THEN /\ gateway' = [gateway EXCEPT !.inbox = Append(@, got)]
               /\ published' =
                    Append(published,
                           [topic |-> command_topic(entities[data.entity_id], devices),
                            payload |-> esphome_payload(
                                            command_payload(data.command, data.value)),
                            by |-> 0])
          ELSE /\ gateway' = [gateway EXCEPT !.inbox = Append(@, got)]
               /\ UNCHANGED published
    /\ nreqs' = nreqs + 1
    /\ UNCHANGED <<bridge, cloud>>
    /\ UNCHANGED <<devices, entities, history, attributes, enabled, executions,
                   cacheCount, cacheCooldown, matchLog, celery, wsQueue, wsSent,
                   now, last, nmsgs, ntoggles, nticks, evaluations>>

\* the two clients serving the requests of the cloud
NextRequests ==
    \/ cloud_start
    \/ \E ok \in BOOLEAN : connect_and_listen(ok)
    \/ cloud_sleep_done
    \/ \E data \in CloudRequests : handle_message(data)
    \/ \E ok \in BOOLEAN : connect_to_cloud(ok)
    \/ gateway_closed
    \/ gateway_sleep_done
    \/ \E data \in CloudRequests : cloud_consumer(data)

SpecRequests == Init /\ [][NextRequests]_vars

(***************************************************************************)
(* core/api/control.py ControlEntityView and                                *)
(* core/services/device_control.py control_entity                           *)
(***************************************************************************)
\* request.data of the control endpoint: structured commands and a scalar
Commands ==
    { DictValue("power" :> Bool("True")),
      DictValue("power" :> Bool("False")),
      DictValue("value" :> Num("25")),
      DictValue("state" :> Str("ON")),
      DictValue(("power" :> Bool("True")) @@ ("brightness" :> Num("80"))),
      ScalarValue(Str("ON")) }

\* entity.state.update(value) / entity.state['value'] = value
optimistic_state(state, value) ==
    IF value.isdict THEN value.d @@ state ELSE ("value" :> value.s) @@ state

\* device_control.control_entity(entity, value)
control_entity(e, value) ==
    LET state == optimistic_state(entities[e].state, value)
        device == devices[entities[e].device]
    IN /\ published' = publish_command(published,
                                       command_topic(entities[e], devices), value, 0)
       /\ entities' = [entities EXCEPT ![e].state = state]
       \* home_id = entity.device.home.id raises without a home: broadcast failed
       /\ wsQueue' = IF device.home # None
                     THEN group_send(wsQueue,
                            [group |-> str_id(device.home), type |-> "entity_state",
                             entity_id |-> e, state |-> state,
                             device_id |-> entities[e].device,
                             is_online |-> device.is_online])
                     ELSE wsQueue

\* ControlEntityView.post for a member of the entity's home
ControlEntityView(entity_id, value) ==
    /\ UNCHANGED <<bridgeVars, evaluations>>
    /\ Len(published) < MaxCommands
    /\ entity_id \in DOMAIN entities
    /\ control_entity(entity_id, value)
    /\ last' = [NoOp EXCEPT !.op = "control", !.ok = TRUE, !.entity = entity_id,
                            !.device = entities[entity_id].device,
                            !.command = value]
    /\ UNCHANGED <<devices, history, attributes, enabled, executions, cacheCount,
                   cacheCooldown, matchLog, celery, wsSent, now, nmsgs, ntoggles,
                   nticks>>

\* local control of the provisioned entities, between state messages of the
\* lamp and the sensor
ControlMessages == { <<LampTopic, "ON">>, <<TempTopic, "25">> }

NextControl ==
    \/ \E m \in ControlMessages : ReceiveState(m[1], m[2], MaxControlMsgs)
    \/ \E e \in 1..3 : \E value \in Commands : ControlEntityView(e, value)

SpecControl == Init /\ [][NextControl]_vars

\* state messages of several shapes for entities of an unknown device, its
\* status, the sweep, and commands to the first entity discovered
PlugTopic == <<"home", "h2", "n2", "switch", "plug", "state">>
ProbeTopic == <<"home", "h2", "n2", "sensor", "probe", "state">>

DiscoveryMessages ==
    { <<StripTopic, "{\"brightness\": 10}">>,
      <<StripTopic, "{\"r\": 1, \"g\": 2, \"b\": 3}">>,
      <<StripTopic, "{\"speed\": 3}">>,
      <<PlugTopic, "{\"brightness\": 10}">>,
      <<ProbeTopic, "{\"brightness\": 10}">>,
      <<(<<"home", "h2", "n2", "status">>), "offline">> }

DiscoveryCommands == { DictValue("speed" :> Num("3")), ScalarValue(Str("ON")) }

NextDiscovery ==
    \/ on_message(DiscoveryMessages, MaxControlMsgs)
    \/ device_health_check
    \/ \E value \in DiscoveryCommands : ControlEntityView(4, value)

SpecDiscovery == Init /\ [][NextDiscovery]_vars

(***************************************************************************)
(* Properties                                                              *)
(***************************************************************************)

\* C1: at most one Device exists per (home, node) pair; a state message for
\* an unknown pair adds exactly one Device, online with last_seen set to the
\* time of the message, and a state message for a known pair adds none.
C1_OneDevicePerPair ==
    /\ [](\A i, j \in DOMAIN devices :
            (/\ devices[i].home_identifier = devices[j].home_identifier
             /\ devices[i].node_name = devices[j].node_name) => i = j)
    /\ [][(last'.op = "state" /\ nmsgs' = nmsgs + 1 /\ Len(last'.topic) = 6) =>
            LET t == last'.topic
                known == \E i \in DOMAIN devices :
                            /\ devices[i].home_identifier = t[2]
                            /\ devices[i].node_name = t[3]
            IN IF known THEN Len(devices') = Len(devices)
               ELSE /\ Len(devices') = Len(devices) + 1
                    /\ devices'[Len(devices')].home_identifier = t[2]
                    /\ devices'[Len(devices')].node_name = t[3]
                    /\ devices'[Len(devices')].is_online
                    /\ devices'[Len(devices')].last_seen = now]_vars

\* C1 witness: an auto-created device has received a later state message
C1_Witness ==
    /\ last.op = "state"
    /\ last.ok
    /\ ~ last.device_created
    /\ last.device > 1
    /\ devices[last.device].is_online

\* C2: a state message whose topic decodes reuses the entity of that
\* (device, name) and updates its state if there is one, creates exactly one
\* entity otherwise; at most one entity exists per (device, name).
C2_GetOrCreateByDeviceAndName ==
    /\ [](\A i, j \in DOMAIN entities :
            (/\ entities[i].device = entities[j].device
             /\ entities[i].name = entities[j].name) => i = j)
    /\ [][(last'.op = "state" /\ nmsgs' = nmsgs + 1 /\ Len(last'.topic) = 6) =>
            LET t == last'.topic
                devs == {d \in DOMAIN devices : /\ devices[d].home_identifier = t[2]
                                                /\ devices[d].node_name = t[3]}
                ents == {e \in DOMAIN entities : /\ entities[e].device \in devs
                                                 /\ entities[e].name = t[5]}
            IN IF ents # {}
               THEN /\ Len(entities') = Len(entities)
                    /\ \A e \in ents :
                          entities'[e].state = wrap_state(parse_payload(last'.payload))
               ELSE Len(entities') = Len(entities) + 1]_vars

\* C3: after a successful state ingest the stored state of the entity is the
\* parsed payload when that is a map, and {value: payload} otherwise; nothing
\* of the previous state is kept.
C3_StateReplaced ==
    (last.op = "state" /\ last.ok) =>
        entities[last.entity].state =
            IF json_loads(last.payload).ok /\ json_loads(last.payload).value.isdict
            THEN json_loads(last.payload).value.d
            ELSE IF json_loads(last.payload).ok
            THEN "value" :> json_loads(last.payload).value.s
            ELSE "value" :> Str(last.payload)

\* C3 witness: the ingest replaced a state that had a key the payload lacks
C3_Witness ==
    /\ last.op = "state"
    /\ last.ok
    /\ \E i \in DOMAIN history :
          /\ i < Len(history)
          /\ history[i].entity = last.entity
          /\ ~ (DOMAIN history[i].value \subseteq DOMAIN entities[last.entity].state)

\* the states of the entity_state notifications emitted for entity e, sent to
\* the clients or still on the channel layer, in order
NotifiedStates(e) ==
    LET ns == SelectSeq(wsSent \o wsQueue,
                        LAMBDA m : m.type = "entity_state" /\ m.entity_id = e)
    IN [i \in DOMAIN ns |-> ns[i].state]

\* the states ingested for entity e, in order
IngestedStates(e) ==
    LET hs == SelectSeq(history, LAMBDA h : h.entity = e)
    IN [i \in DOMAIN hs |-> hs[i].value]

C5_StatusNeverCreates ==
    [][(last'.op = "status" /\ nmsgs' = nmsgs + 1) =>
         LET t == last'.topic
             known == {i \in DOMAIN devices : /\ Len(t) = 4
                                              /\ devices[i].home_identifier = t[2]
                                              /\ devices[i].node_name = t[3]}
         IN /\ DOMAIN devices' = DOMAIN devices
            /\ entities' = entities
            /\ history' = history
            /\ attributes' = attributes
            /\ published' = published
            /\ executions' = executions
            /\ (known = {}) => (devices' = devices /\ wsQueue' = wsQueue)
            /\ \A i \in DOMAIN devices :
                  devices'[i] =
                     IF i \notin known THEN devices[i]
                     ELSE IF last'.payload = "online"
                     THEN [devices[i] EXCEPT !.is_online = TRUE, !.last_seen = now]
                     ELSE [devices[i] EXCEPT !.is_online = FALSE]]_vars

\* C5 witness: a device that had been seen was set offline by a status
\* payload other than "online"
C5_Witness ==
    /\ last.op = "status"
    /\ last.ok
    /\ last.payload # "online"
    /\ ~ devices[last.device].is_online
    /\ devices[last.device].last_seen # NoTime

\* C6: after a sweep no device is online with a last_seen older than the
\* threshold; a sweep changes only the online flag of the devices older than
\* the threshold and reports how many it flipped; the same sweep run again
\* changes nothing and reports 0.
C6_SweepIdempotent ==
    /\ [](last.op = "sweep" =>
            \A i \in DOMAIN devices :
               ~ (/\ devices[i].is_online
                  /\ devices[i].last_seen # NoTime
                  /\ devices[i].last_seen < last.threshold))
    /\ []((last.op = "sweep" /\ last.repeat) => last.count = 0)
    /\ [][(last'.op = "sweep" /\ now' = now /\ wsQueue' = wsQueue) =>
            /\ DOMAIN devices' = DOMAIN devices
            /\ \A i \in DOMAIN devices :
                  IF devices[i].last_seen = NoTime \/ devices[i].last_seen >= last'.threshold
                  THEN devices'[i] = devices[i]
                  ELSE devices'[i] = [devices[i] EXCEPT !.is_online = FALSE]
            /\ last'.count = Cardinality({i \in DOMAIN devices : devices'[i] # devices[i]})
            /\ last'.repeat => devices' = devices
            /\ entities' = entities]_vars

\* C6 witness: a sweep flipped a device, left an online device alone, and was
\* run again
C6_Witness ==
    /\ last.op = "sweep"
    /\ last.repeat
    /\ last.prev_count > 0
    /\ \E i \in DOMAIN devices : devices[i].is_online

\* C7: the state topic of the entity a state message of the standard shape was
\* ingested into is that topic, and its command topic is that topic with the
\* last segment replaced by "command".
C7_TopicRoundTrip ==
    (last.op = "state" /\ last.ok /\ IsStateShape(last.topic)) =>
        /\ state_topic(entities[last.entity], devices) = last.topic
        /\ command_topic(entities[last.entity], devices) =
              [last.topic EXCEPT ![6] = "command"]

\* C7 witness: the entity and its device were created from the decoded address
C7_Witness ==
    /\ last.op = "state"
    /\ last.ok
    /\ IsStateShape(last.topic)
    /\ last.entity_created
    /\ last.device_created

\* C8: a message whose topic has neither the 6-segment state shape nor the
\* 4-segment status shape creates nothing, changes no stored state, evaluates
\* no rule and emits no notification.
C8_MalformedDropped ==
    [][(/\ nmsgs' = nmsgs + 1
        /\ ~ IsStateShape(last'.topic)
        /\ ~ IsStatusShape(last'.topic)) =>
         /\ devices' = devices
         /\ entities' = entities
         /\ history' = history
         /\ attributes' = attributes
         /\ wsQueue' = wsQueue
         /\ executions' = executions
         /\ published' = published
         /\ cacheCount' = cacheCount
         /\ last'.evaluated = {}]_vars

\* the number of rows of a table that belong to rule r
CountBy(table, r) ==
    Len(SelectSeq(table, LAMBDA x : x.by = r))

ExecutionsOf(table, r) ==
    Len(SelectSeq(table, LAMBDA x : x.automation = r))

\* C9: a rule that is disabled when a state change or a tick is processed is
\* not evaluated by it: no command is published for the rule, no scene run is
\* queued for it and no execution of it is recorded.
C9_DisabledNeverEvaluated ==
    [][\A r \in RuleIds :
          ~ enabled[r] =>
             /\ r \notin last'.evaluated
             /\ ExecutionsOf(executions', r) = ExecutionsOf(executions, r)
             /\ CountBy(published', r) = CountBy(published, r)
             /\ CountBy(celery', r) <= CountBy(celery, r)]_vars

\* C9 witness: a disabled rule whose trigger the incoming change satisfies was
\* passed over while an enabled rule on the same change ran
C9_Witness ==
    /\ last.op = "state"
    /\ last.ok
    /\ last.topic = LampTopic
    /\ last.payload = "ON"
    /\ ~ enabled[1]
    /\ ExecutionsOf(executions, 1) = 0
    /\ 2 \in last.evaluated

\* the value stored for the attribute a trigger refers to
StoredValue(trigger, ents) ==
    LET st == ents[trigger.entity].state
    IN IF trigger.attribute \in DOMAIN st THEN st[trigger.attribute]
       ELSE IF "value" \in DOMAIN st THEN st["value"]
       ELSE NullScalar

\* C10: a rule with mode ALL and two State triggers on different entities or
\* attributes fires on a change matching one of them exactly when the incoming
\* value satisfies that trigger and the stored value of the other trigger's
\* entity satisfies the other (the rule being enabled and neither rate limited
\* nor in cooldown).
C10_AllOfTwoStateTriggers ==
    [][(/\ last'.op = "state"
        /\ last'.ok
        /\ nmsgs' = nmsgs + 1
        /\ ~ parse_payload(last'.payload).isdict) =>
         \A r \in RuleIds :
            LET ts == Automations[r].triggers
                attr == attribute_name(entities'[last'.entity].entity_type,
                                       entities'[last'.entity].name)
                new_value == parse_payload(last'.payload).s
            IN (/\ enabled[r]
                /\ Automations[r].trigger_logic = "AND"
                /\ Len(ts) = 2
                /\ ts[1].trigger_type = "state"
                /\ ts[2].trigger_type = "state"
                /\ cache_get_count(cacheCount, r, now) < MAX_EXECUTIONS_PER_MINUTE
                /\ ~ (now < cacheCooldown[r])) =>
                  \A i \in {1, 2} :
                     (/\ ts[i].entity = last'.entity
                      /\ ts[i].attribute = attr
                      /\ ~ (ts[3 - i].entity = last'.entity /\ ts[3 - i].attribute = attr)) =>
                        ((ExecutionsOf(executions', r) > ExecutionsOf(executions, r))
                           <=> (/\ evaluate_trigger(ts[i], new_value)
                                /\ evaluate_trigger(ts[3 - i],
                                                    StoredValue(ts[3 - i], entities'))))]_vars

\* rule r produced an execution record in this step
Fired(r) ==
    ExecutionsOf(executions', r) > ExecutionsOf(executions, r)

\* the triggers of rule r are all State triggers on this entity and attribute
AllTriggersOn(r, e, attr) ==
    \A i \in DOMAIN Automations[r].triggers :
        /\ Automations[r].triggers[i].trigger_type = "state"
        /\ Automations[r].triggers[i].entity = e
        /\ Automations[r].triggers[i].attribute = attr

\* C11: in the state-change driver a rule with mode ANY fires when at least
\* one of its triggers is true, a rule with mode ALL only when all are, and a
\* rule without triggers never fires (stated for the enabled rules whose
\* triggers all watch the changed attribute, neither rate limited nor in
\* cooldown).
C11_TriggerModeCombination ==
    [][(/\ last'.op = "state"
        /\ last'.ok
        /\ nmsgs' = nmsgs + 1
        /\ ~ parse_payload(last'.payload).isdict) =>
         \A r \in RuleIds :
            LET ts == Automations[r].triggers
                attr == attribute_name(entities'[last'.entity].entity_type,
                                       entities'[last'.entity].name)
                new_value == parse_payload(last'.payload).s
            IN /\ (ts = <<>>) => ~ Fired(r)
               /\ (/\ enabled[r]
                   /\ ts # <<>>
                   /\ AllTriggersOn(r, last'.entity, attr)
                   /\ cache_get_count(cacheCount, r, now) < MAX_EXECUTIONS_PER_MINUTE
                   /\ ~ (now < cacheCooldown[r])) =>
                     (Fired(r) <=>
                        IF Automations[r].trigger_logic = "AND"
                        THEN \A i \in DOMAIN ts : evaluate_trigger(ts[i], new_value)
                        ELSE \E i \in DOMAIN ts : evaluate_trigger(ts[i], new_value))]_vars

\* the execution times of rule r, oldest first
FiringTimes(execs, r) ==
    LET mine == SelectSeq(execs, LAMBDA x : x.automation = r)
    IN [i \in DOMAIN mine |-> mine[i].executed_at]

\* C12: two consecutive firings of a rule, by either driver, are at least the
\* rule's configured cooldown apart.
C12_CooldownPerRule ==
    \A r \in RuleIds :
        LET ft == FiringTimes(executions, r)
        IN \A i \in DOMAIN ft :
              i > 1 => ft[i] - ft[i - 1] >= Automations[r].cooldown_seconds

\* the time of the latest firing of rule r, NoTime if it never fired
LastFiring(execs, r) ==
    LET ft == FiringTimes(execs, r)
    IN IF ft = <<>> THEN NoTime ELSE ft[Len(ft)]

\* an event whose value satisfies the triggers of rule r was processed
Qualified(r) ==
    Len(matchLog'[r]) > Len(matchLog[r])

\* C13: a rule with cooldown 60s does not fire on a qualifying event that
\* arrives less than 60s after its last firing, and fires on a qualifying
\* event that arrives when it never fired or more than 60s after its last
\* firing, whatever events were suppressed in between.
C13_CooldownThenEligible ==
    [][\A r \in RuleIds :
          (Automations[r].cooldown_seconds = 60 /\ Qualified(r)) =>
             LET f == LastFiring(executions, r)
             IN /\ (f # NoTime /\ now < f + 60) => ~ Fired(r)
                /\ (f = NoTime \/ now > f + 60) => Fired(r)]_vars

\* the qualifying events of rule r in the 60 seconds up to t
RecentMatches(r, t) ==
    Len(SelectSeq(matchLog[r], LAMBDA x : x > t - 60))

\* C14: a rule fires at most 10 times in any 60-second window, and a
\* qualifying event that has 10 or more qualifying events of the rule in the
\* 60 seconds before it (the 11th of its window) is skipped: no command is
\* published for the rule and no execution is recorded.
C14_RollingRateLimit ==
    /\ [](\A r \in RuleIds :
            LET ft == FiringTimes(executions, r)
            IN \A i \in DOMAIN ft :
                  Cardinality({j \in DOMAIN ft : ft[i] <= ft[j] /\ ft[j] < ft[i] + 60})
                     <= MAX_EXECUTIONS_PER_MINUTE)
    /\ [][\A r \in RuleIds :
            (Qualified(r) /\ RecentMatches(r, now) >= MAX_EXECUTIONS_PER_MINUTE) =>
               /\ ~ Fired(r)
               /\ CountBy(published', r) = CountBy(published, r)]_vars

\* C15: every execution record stands for one run of all the actions of its
\* rule, each attempted once and in declared order, and its success flag is
\* true exactly when every action succeeded.
C15_ActionsInOrderOneRecord ==
    \A i \in DOMAIN executions :
        LET x == executions[i]
        IN /\ Len(x.attempts) = Len(Automations[x.automation].actions)
           /\ \A k \in DOMAIN x.attempts : x.attempts[k].index = k
           /\ x.success <=> (\A k \in DOMAIN x.attempts : x.attempts[k].ok)

\* C16: a run of a scene attempts every action of the scene in stored order
\* whether or not one of them fails, so the run of a scene with 3 actions ends
\* with 3 actions attempted and none of the effects of the earlier ones undone.
C16_SceneRunsAllActions ==
    (last.op = "run_scene") =>
        /\ last.attempted = Len(Scenes[last.scene].actions)
        /\ ~ last.raised

\* the wait chosen by a step of a client's loop from c to d: the floor after a
\* connection that was established, twice the previous wait, capped, after a
\* failed attempt (the floor when there was no wait before)
BackoffStep(c, d, listening, floor, ceiling) ==
    /\ (c.pc = "connect" /\ d.pc = listening) => d.reconnect_delay = floor
    /\ (c.pc = listening /\ d.pc = "sleep") => d.slept = floor
    /\ (c.pc = "connect" /\ d.pc = "sleep") =>
          d.slept = IF c.slept = 0 THEN floor
                    ELSE IF 2 * c.slept < ceiling THEN 2 * c.slept ELSE ceiling

C18_LeavesConnected ==
    /\ (bridge.pc = "gather" /\ bridge.sock = "closed") ~> (bridge.pc # "gather")
    /\ (cloud.pc = "listen" /\ cloud.sock = "closed") ~> (cloud.pc # "listen")

\* C19: once stop is requested no new connection attempt is started, and
\* eventually the client's loop has exited, its connection is closed and
\* neither of its loops runs
C19_StopIsTerminal ==
    /\ [][/\ bridge.stopped => ~ (bridge.pc # "connect" /\ bridge'.pc = "connect")
          /\ cloud.stopped => ~ (cloud.pc # "connect" /\ cloud'.pc = "connect")]_vars
    /\ bridge.stopped ~> (/\ bridge.pc = "exit"
                          /\ bridge.sock # "open"
                          /\ bridge.receive # "run"
                          /\ bridge.ping # "run")
    /\ cloud.stopped ~> (/\ cloud.pc = "exit"
                         /\ cloud.sock # "open"
                         /\ cloud.heartbeat # "run")

\* the requests a client has to answer
IsRequest(q) == q.type \in {"get_devices", "control_entity", "run_scene"}

\* the one answer to request q among the messages out: a snapshot for
\* get_devices; for control_entity and run_scene a success acknowledgment sent
\* after the command was published, or an error, and an error when the
\* target does not exist
Answered(q, out) ==
    LET replies == { j \in DOMAIN out : out[j].request_id = q.request_id }
    IN /\ Cardinality(replies) = 1
       /\ \A j \in replies :
            IF q.type = "get_devices"
            THEN out[j].type \in {"devices_response", "get_devices_response"}
            ELSE \/ out[j].type = "error"
                 \/ /\ out[j].type = "ack"
                    /\ out[j].status = "success"
                    /\ out[j].pubs > q.pubs
                    /\ q.type = "control_entity" => q.entity_id \in DOMAIN entities
                    /\ q.type = "run_scene" => q.scene_id \in DOMAIN Scenes

\* C20: every get_devices, control_entity or run_scene request received while
\* Connected is answered with exactly one outbound message carrying its
\* request_id: a snapshot, a success acknowledgment after the command was
\* published, or an error-type acknowledgment
C20_RequestAnsweredOnce ==
    /\ \A i \in DOMAIN cloud.inbox :
          IsRequest(cloud.inbox[i]) => Answered(cloud.inbox[i], cloud.out)
    /\ \A i \in DOMAIN gateway.inbox :
          IsRequest(gateway.inbox[i]) => Answered(gateway.inbox[i], gateway.out)

\* the encoding of a structured command: "ON"/"OFF" for a lone boolean power,
\* the value for a lone value, the encoded object otherwise
Encoded(d) ==
    IF DOMAIN d = {"power"} /\ d["power"].t = "bool"
    THEN WireScalar(Str(IF d["power"] = Bool("True") THEN "ON" ELSE "OFF"))
    ELSE IF DOMAIN d = {"value"} THEN WireScalar(d["value"])
    ELSE WireJson(d)

\* C21: a structured command with only a boolean power key is published as
\* "ON" or "OFF", one with only a value key as that value, any other one as an
\* encoded structured payload with the same keys and values
C21_CommandEncoding ==
    (last.op = "control" /\ last.command.isdict) =>
        published[Len(published)].payload = Encoded(last.command.d)

\* the history rows of entity e, oldest first
HistoryOf(e) == SelectSeq(history, LAMBDA h : h.entity = e)

\* C27: the stored state of an entity is the wrapped payload of the last state
\* message ingested for it, or the empty map; a command never changes it
C27_StateOnlyByIngest ==
    \A e \in DOMAIN entities :
        entities[e].state =
            IF HistoryOf(e) = <<>> THEN EmptyDict
            ELSE HistoryOf(e)[Len(HistoryOf(e))].value

\* the commands published on behalf of rule r
PublishedBy(r) == SelectSeq(published, LAMBDA p : p.by = r)

\* C22: after the single message ON on the lamp's state topic the lamp's
\* state is {value: ON} and rule 6 (lamp.value == ON -> fan {power: true})
\* has fired exactly once and published exactly one command, "ON", on the
\* fan's command topic
C22_EndToEnd ==
    (nmsgs = 1 /\ last.op = "state" /\ last.topic = LampTopic /\ last.payload = "ON") =>
        /\ entities[1].state = ("value" :> Str("ON"))
        /\ Len(FiringTimes(executions, 6)) = 1
        /\ Len(PublishedBy(6)) = 1
        /\ \A i \in DOMAIN PublishedBy(6) :
              /\ PublishedBy(6)[i].topic = command_topic(entities[3], devices)
              /\ PublishedBy(6)[i].payload = WireScalar(Str("ON"))

\* the capabilities the first payload stands for, whatever the entity kind
ShapeCapabilities(value) ==
    { c \in {"brightness", "rgb", "speed"} :
        /\ value.isdict
        /\ \/ c = "brightness" /\ "brightness" \in DOMAIN value.d
           \/ c = "rgb" /\ {"r", "g", "b"} \subseteq DOMAIN value.d
           \/ c = "speed" /\ "speed" \in DOMAIN value.d }

KindCapabilities(kind) == IF kind = "sensor" THEN {"read_only"} ELSE {}

\* a step keeps the capabilities of every existing entity
CapabilitiesKept ==
    /\ DOMAIN entities \subseteq DOMAIN entities'
    /\ \A e \in DOMAIN entities :
          entities'[e].capabilities = entities[e].capabilities

\* C23: the capability map is set at auto-creation from the first payload
\* (brightness, RGB, speed keys; read-only for a sensor) and no later state
\* message, status message, sweep or command changes it
C23_CapabilitiesSetOnce ==
    [][/\ CapabilitiesKept
       /\ \A e \in DOMAIN entities' \ DOMAIN entities :
             entities'[e].capabilities =
                ShapeCapabilities(parse_payload(last'.payload))
                \cup KindCapabilities(entities'[e].entity_type)]_vars

\* C23 amended: the brightness, RGB and speed capabilities are inferred only
\* for an entity of kind light or fan; an entity of any other kind gets none
\* of them (a sensor is read-only), and no later step changes the map
C23_CapabilitiesSetOnceByKind ==
    [][/\ CapabilitiesKept
       /\ \A e \in DOMAIN entities' \ DOMAIN entities :
             entities'[e].capabilities =
                (IF entities'[e].entity_type \in {"light", "fan"}
                 THEN ShapeCapabilities(parse_payload(last'.payload))
                 ELSE {})
                \cup KindCapabilities(entities'[e].entity_type)]_vars

\* the strip was created with a brightness payload, a later message of another
\* shape replaced its state and a command was sent to it: the map still holds
\* brightness only
C23_Witness ==
    \E e \in DOMAIN entities :
        /\ entities[e].entity_type = "light"
        /\ entities[e].capabilities = {"brightness"}
        /\ "r" \in DOMAIN entities[e].state
        /\ last.op = "control"
        /\ last.entity = e

\* the rules whose evaluation raises on the message ON for the lamp
RaisesOnLampOn(r) ==
    _check_all_triggers(r, 1, "state", Str("ON"), entities) = "raise"

\* C24: when the evaluation of a candidate rule raises, a failed execution
\* record carrying the error text is written for that rule, the remaining
\* candidates are still evaluated and the state change is still broadcast
C24_FailureRecorded ==
    (last.op = "state" /\ last.ok /\ last.topic = LampTopic /\ last.payload = "ON") =>
        /\ \A r \in last.evaluated :
              RaisesOnLampOn(r) =>
                 \E i \in DOMAIN executions :
                    /\ executions[i].automation = r
                    /\ executions[i].executed_at = now
                    /\ ~ executions[i].success
                    /\ executions[i].error_message # ""
        /\ \A r \in RuleIds :
              (enabled[r] /\ \E i \in DOMAIN Automations[r].triggers :
                                /\ Automations[r].triggers[i].entity = 1
                                /\ Automations[r].triggers[i].attribute = "state")
                 => r \in last.evaluated
        /\ wsQueue # <<>>
        /\ wsQueue[Len(wsQueue)].type = "entity_state"
        /\ wsQueue[Len(wsQueue)].entity_id = 1

\* a State trigger is true of the stored state of its entity, under whichever
\* key the value is stored
StateTriggerHolds(tr) ==
    /\ tr.entity \in DOMAIN entities
    /\ \E k \in DOMAIN entities[tr.entity].state :
          evaluate_trigger(tr, entities[tr.entity].state[k])

\* the rule was fired by the tick that has just run
FiredByTick(r) ==
    /\ last.op = "tick"
    /\ \E i \in DOMAIN executions :
          /\ executions[i].automation = r
          /\ executions[i].executed_at = now
          /\ executions[i].trigger_entity = None

\* C25: a tick fires a rule of mode ALL that has a State trigger beside its
\* Time or Sun trigger only if the State trigger is true of the live stored
\* value, and a firing by a tick is counted by the rule's rate limiter
C25_TickSameLogic ==
    \A r \in RuleIds :
        (FiredByTick(r) /\ Automations[r].trigger_logic = "AND") =>
            /\ \A i \in DOMAIN Automations[r].triggers :
                  Automations[r].triggers[i].trigger_type = "state" =>
                      StateTriggerHolds(Automations[r].triggers[i])
            /\ cacheCount[r].count > 0

HasTimedTrigger(r) ==
    \E i \in DOMAIN Automations[r].triggers :
        Automations[r].triggers[i].trigger_type \in {"time", "sun"}

\* the execution records of rule r written by the state-change driver, which
\* records the entity that changed, and by the tick driver, which records none
StateFirings(r) ==
    { i \in DOMAIN executions :
        executions[i].automation = r /\ executions[i].trigger_entity # None }

TickFirings(r) ==
    { i \in DOMAIN executions :
        executions[i].automation = r /\ executions[i].trigger_entity = None }

HasSunTrigger(r) ==
    \E i \in DOMAIN Automations[r].triggers :
        /\ Automations[r].triggers[i].trigger_type = "sun"
        /\ Automations[r].triggers[i].sun_event = "sunrise"
        /\ Automations[r].triggers[i].sun_offset = 0

\* a periodic run that evaluates rule r, whose only trigger is a Sun trigger
\* and which has not fired before
SunTick(r) ==
    /\ nticks' = nticks + 1
    /\ last'.op = "tick"
    /\ r \in last'.evaluated
    /\ HasSunTrigger(r)
    /\ Len(Automations[r].triggers) = 1
    /\ TickFirings(r) = {}

\* C26: at a tick, a rule whose only trigger is a Sun trigger fires exactly when
\* the solar event instant lies in the 60 seconds that precede the tick
C26_SunMatchesLastInterval ==
    [][\A r \in RuleIds :
          SunTick(r) =>
             ((\E i \in DOMAIN executions' :
                  executions'[i].automation = r /\ executions'[i].executed_at = now)
              <=> (now - 60 < SunriseInstant /\ SunriseInstant <= now))]_vars

FiringsSinceAbsent(r) ==
    { i \in StateFirings(r) : executions[i].executed_at >= cacheCount[r].since }

C28_ConcurrentEvaluationsAtomic ==
    \A r \in ConcurrentRules :
        /\ \A i, j \in StateFirings(r) :
              i < j => executions[j].executed_at - executions[i].executed_at
                          >= DEFAULT_COOLDOWN_SECONDS
        /\ (/\ \A p \in Workers : evaluations[p].pc = "idle"
            /\ now < cacheCount[r].expires
            /\ cacheCount[r].count < MAX_EXECUTIONS_PER_MINUTE) =>
              cacheCount[r].count =
                 Len(SelectSeq(matchLog[r], LAMBDA x : x >= cacheCount[r].since))

====
